---- MODULE Spec2Model ----
(***************************************************************************)
(* cc-caffeine: the session ledger (src/session.js), the PID-file protocol *)
(* (src/pid.js, src/server.js) and the tray controller (src/system-tray.js)*)
(* as a state machine.                                                     *)
(*                                                                         *)
(* Atomic steps are the single file-system calls (existsSync, writeFile,   *)
(* lock, unlink, release) and, inside one Node process, the synchronous    *)
(* stretches between two awaits.  Timestamps are ISO-8601 strings with     *)
(* millisecond resolution; toISOString / new Date(string) round-trip       *)
(* exactly at that resolution, so a timestamp is its millisecond count.    *)
(* Session ids are ordinary keys (not names inherited from                 *)
(* Object.prototype).  proper-lockfile's staleness timeout is not          *)
(* modelled: no holder keeps a lock longer than one file-system call.      *)
(*                                                                         *)
(* withPidLock and removePidFileWithLock are called by server.js and       *)
(* system-tray.js but are not part of the pid.js at hand; they follow the  *)
(* written specification (a startup lock around the callback; a removal    *)
(* that unlinks only the caller's own record).  The startup lock is taken  *)
(* to be a lock of its own, not the proper-lockfile lock that readPidFile, *)
(* writePidFile and removePidFile take on server.pid inside the callback.  *)
(*                                                                         *)
(* Specifications:                                                         *)
(*   SpecLedger  client processes calling the four ledger operations       *)
(*   SpecPid     server processes racing through handleServer, serving as  *)
(*               daemons and shutting down                                 *)
(*   SpecProbe   SpecPid plus client processes that ask isServerRunning    *)
(*   SpecTray    one daemon, its ticks and its shutdown, beside hook       *)
(*               commands that add and remove sessions                     *)
(*   SpecTicks   one daemon, its ticks and its shutdown, over a ledger     *)
(*               that holds one session                                    *)
(*   SpecFaulty  SpecTicks with a ledger file that can lose its content    *)
(*   SpecLocks   hook commands and status commands on such a ledger file   *)
(*               and a PID file that can be stale                          *)
(*   SpecStocked SpecLedger over a ledger file that is there and holds one *)
(*               session                                                   *)
(*   SpecReuse   SpecLocks over a PID file that can also name a process    *)
(*               of another user                                           *)
(*   SpecSerial  the four ledger operations called one after another       *)
(*   SpecPolling SpecTicks with a timer that keeps firing and ticks that   *)
(*               keep running                                              *)
(*   SpecContended one caller of the five ledger operations, with          *)
(*               lockfile.lock taken attempt by attempt, beside another    *)
(*               user of the lock                                          *)
(*   SpecHooks   hook commands from the ledger operation to the server     *)
(*               check and the spawn                                       *)
(***************************************************************************)
EXTENDS Integers, Sequences, FiniteSets, TLC

----------------------------------------------------------------------------
(* Bounds of the model *)

NClients == 2
NSessionIds == 2
NInstants == 4
NHooks == 1
NTicks == 2
NServers == 2
NProbes == 1

(* Program constants *)

SESSION_TIMEOUT == 15 * 60 * 1000
MAX_RETRIES == 10

----------------------------------------------------------------------------
VARIABLES
  ledger,      \* sessions.json: [exists, sessions: id -> Session, last_updated]
  clock,       \* the wall clock, in milliseconds
  ledgerLock,  \* holder of the proper-lockfile lock on sessions.json, 0 = free
  lpc,         \* per caller: where it is inside its ledger operation
  lop,         \* per caller: the ledger operation it runs, [kind, id]
  ltries,      \* per caller: the attempts made by a lockfile.lock call that gave up
  retryCount,  \* per caller: retryCount of its running readSessionsWithLock
  lres,        \* per caller: what its critical section did and returns
  acked,       \* the ids whose add has returned and that no remove has deleted since
  pidFile,     \* server.pid: 0 = no file, else the PID it holds
  pidLock,     \* holder of the proper-lockfile lock on server.pid, 0 = free
  pidGate,     \* holder of the startup lock taken by withPidLock, 0 = free
  spc,         \* per process: where it is in handleServer / shutdownServer / ensureServer
  ssite,       \* per process: the call site of its running isServerRunning
  sloc,        \* per process: its locals, and the record holder it started under
  tray,        \* per server process: trayState plus the tray icon shown
  nstart,      \* calls of powerSaveBlocker.start so far
  nstop,       \* calls of powerSaveBlocker.stop so far
  prevTick,    \* what the last but one completed tick found and did
  lastTick,    \* what the last completed tick found and did
  sd           \* what the running shutdownServer has done so far

ledgerVars == <<ledger, clock, ledgerLock, lpc, lop, ltries, retryCount, lres, acked>>

pidVars == <<pidFile, pidLock, pidGate, spc, ssite, sloc>>

trayVars == <<tray, nstart, nstop, prevTick, lastTick, sd>>

vars == <<ledger, clock, ledgerLock, lpc, lop, ltries, retryCount, lres, acked,
          pidFile, pidLock, pidGate, spc, ssite, sloc,
          tray, nstart, nstop, prevTick, lastTick, sd>>

(* A client is one short-lived process: one command, one ledger operation. *)
(* A tick is one run of the daemon's updateCaffeineStatus.                 *)
Clients == 1..NClients
TickIds == (NClients + 1)..(NClients + NTicks)
Callers == Clients \cup TickIds

(* The server process whose ticks are followed (process p has PID p) *)
DaemonPid == 1

(* The client processes that run beside the daemon whose ticks are followed *)
HookClients == 1..NHooks
SessionIds == 1..NSessionIds

(* The instants the clock can show, in order: 0, 1, then one millisecond   *)
(* short of, exactly, and one millisecond over every multiple of the       *)
(* timeout, so that "just under", "exactly" and "just over" 15 minutes     *)
(* since an earlier instant all occur.                                     *)
Instant(k) ==
  IF k <= 2 THEN k - 1 ELSE (k \div 3) * SESSION_TIMEOUT + (k % 3) - 1

Times == {Instant(k) : k \in 1..NInstants}

NoOp == [kind |-> "none", id |-> 0]
OpKinds == {"add", "remove", "list", "sweep"}

EmptySessions == [id \in {} |-> 0]

MissingFile == [exists |-> FALSE, sessions |-> EmptySessions, last_updated |-> 0]

(* What a caller holds between its critical section and its return: the    *)
(* file it read (before) and left (after), its two clock readings (now:    *)
(* the string it writes; time: the Date it compares last_activity against) *)
(* and the values it returns.                                              *)
NoRes ==
  [before |-> MissingFile, after |-> MissingFile, now |-> 0, time |-> 0, action |-> "none",
   cleaned |-> 0, changes |-> 0, active |-> {}, wrote |-> FALSE]

(* process.env.CLAUDE_PROJECT_DIR of the calling process *)
ProjectDir(p) == p

(* A sessions.json whose content is not JSON, as a writer that died inside *)
(* fs.writeFileSync or an editor leaves it.  It exists, so initSessionsFile *)
(* does not replace it; its other fields are never read.                   *)
DamagedFile == [exists |-> TRUE, sessions |-> EmptySessions, last_updated |-> -1]

(* JSON.parse(fs.readFileSync(SESSIONS_FILE)) returns, rather than throws *)
Parses(file) == file # DamagedFile

(* A release that is skipped when the critical section throws *)
releaseOnReturn(holder, threw) == IF threw THEN holder ELSE 0

(* finally { await release() }: the holder of the lock after the critical  *)
(* section returned or threw                                               *)
finallyRelease(holder, threw) == 0

(* A catch that gives up polling *)
abandonTickAndPolling(state) == [state EXCEPT !.pollInterval = FALSE]

(* A catch that falls back to Normal *)
abandonTickToNormal(state) ==
  [state EXCEPT !.isCaffeinated = FALSE, !.powerSaveBlockerId = 0]

(* The catch of updateCaffeineStatus: the error is logged, trayState is    *)
(* not touched                                                             *)
abandonTick(state) == state

----------------------------------------------------------------------------
(* The expiry sweep shared by add, remove and cleanup *)

Expired(s, now) == now - s.last_activity >= SESSION_TIMEOUT

(* A sweep that lets a session live one millisecond too long *)
SweepOffByOne(sessions, now) ==
  [id \in {i \in DOMAIN sessions : now - sessions[i].last_activity <= SESSION_TIMEOUT}
     |-> sessions[id]]

(* A sweep that deletes nothing *)
SweepSkipped(sessions, now) == sessions

Sweep(sessions, now) ==
  [id \in {i \in DOMAIN sessions : ~Expired(sessions[i], now)} |-> sessions[id]]

ExpiredCount(sessions, now) ==
  Cardinality({i \in DOMAIN sessions : Expired(sessions[i], now)})

(* A filter that still returns a session idle for exactly the timeout *)
ActiveIdsInclusive(sessions, now) ==
  {i \in DOMAIN sessions : now - sessions[i].last_activity <= SESSION_TIMEOUT}

(* getActiveSessionsWithLock's filter: the ids it returns *)
ActiveIds(sessions, now) ==
  {i \in DOMAIN sessions : now - sessions[i].last_activity < SESSION_TIMEOUT}

(* A renew that writes a fresh record over the one it found *)
AddOrUpdateRecreate(sessions, id, now, dir) ==
  [i \in DOMAIN sessions \cup {id} |->
     IF i = id
       THEN [created_at |-> now, last_activity |-> now, project_dir |-> dir]
       ELSE sessions[i]]

(* A renew that stamps created_at in place of last_activity *)
AddOrUpdateStampsCreated(sessions, id, now, dir) ==
  IF id \in DOMAIN sessions
    THEN [sessions EXCEPT ![id].created_at = now]
    ELSE [i \in DOMAIN sessions \cup {id} |->
            IF i = id
              THEN [created_at |-> now, last_activity |-> now, project_dir |-> dir]
              ELSE sessions[i]]

(* A create that stamps last_activity and leaves created_at at the epoch *)
AddOrUpdateEpochCreated(sessions, id, now, dir) ==
  IF id \in DOMAIN sessions
    THEN [sessions EXCEPT ![id].last_activity = now]
    ELSE [i \in DOMAIN sessions \cup {id} |->
            IF i = id
              THEN [created_at |-> 0, last_activity |-> now, project_dir |-> dir]
              ELSE sessions[i]]

(* Lines 78-89 of addSessionWithLock *)
AddOrUpdate(sessions, id, now, dir) ==
  IF id \in DOMAIN sessions
    THEN [sessions EXCEPT ![id].last_activity = now]
    ELSE [i \in DOMAIN sessions \cup {id} |->
            IF i = id
              THEN [created_at |-> now, last_activity |-> now, project_dir |-> dir]
              ELSE sessions[i]]

(* Lines 95-99 of addSessionWithLock: decided after the write, by comparing timestamps *)
AddAction(sessions, id, now) ==
  IF id \notin DOMAIN sessions
       \/ (sessions[id].created_at = now /\ sessions[id].last_activity = now)
    THEN "added"
    ELSE "updated"

RemoveId(sessions, id) ==
  [i \in DOMAIN sessions \ {id} |-> sessions[i]]

----------------------------------------------------------------------------
(* initSessionsFile, then lockfile.lock, of every ledger operation *)

(* A client process starts (the k-th process to start is client k), calls  *)
(* one ledger operation of the given kinds, and initSessionsFile tests     *)
(* fs.existsSync                                                           *)
Begin(p, kinds) ==
  /\ lpc[p] = "idle"
  /\ \A q \in Clients : q < p => lpc[q] # "idle"
  /\ \E k \in kinds, id \in SessionIds :
       lop' = [lop EXCEPT ![p] = [kind |-> k, id |-> IF k \in {"add", "remove"} THEN id ELSE 0]]
  /\ lpc' = [lpc EXCEPT ![p] = IF ledger.exists THEN "lock" ELSE "init"]
  /\ UNCHANGED <<ledger, clock, ledgerLock, ltries, retryCount, lres, acked>>
  /\ UNCHANGED <<pidVars, trayVars>>

(* A process calls any one of the four exported ledger operations *)
Call(p) ==
  /\ p \in Clients
  /\ Begin(p, OpKinds)

(* handleSessionCommand of the caffeinate and uncaffeinate hooks:          *)
(* addSessionWithLock or removeSessionWithLock with the hook's session id  *)
handleSessionCommand(p) ==
  /\ p \in HookClients
  /\ Begin(p, {"add", "remove"})

(* initSessionsFile: fs.writeFileSync of the empty ledger, no lock held *)
InitWrite(c) ==
  /\ lpc[c] = "init"
  /\ ledger' = [exists |-> TRUE, sessions |-> EmptySessions, last_updated |-> clock]
  /\ lpc' = [lpc EXCEPT ![c] = "lock"]
  /\ UNCHANGED <<clock, ledgerLock, lop, ltries, retryCount, lres, acked>>
  /\ UNCHANGED <<pidVars, trayVars>>

(* lockfile.lock succeeds *)
LockAcquire(c) ==
  /\ lpc[c] = "lock"
  /\ ledgerLock = 0
  /\ ledgerLock' = c
  /\ lpc' = [lpc EXCEPT ![c] = "cs"]
  /\ ltries' = [ltries EXCEPT ![c] = 0]
  /\ UNCHANGED <<ledger, clock, lop, retryCount, lres, acked>>
  /\ UNCHANGED <<pidVars, trayVars>>

(* lockfile.lock gives up with ELOCKED: the first attempt and each of the  *)
(* MAX_RETRIES retries found the lock held.  A failed attempt changes      *)
(* nothing but the attempt count and the holder may keep the lock across   *)
(* all of them, so the attempts are folded into the step of the last one.  *)
LockBusy(c) ==
  /\ lpc[c] = "lock"
  /\ ledgerLock # 0
  /\ ltries' = [ltries EXCEPT ![c] = IF c \in Clients THEN MAX_RETRIES + 1 ELSE 0]
  /\ lpc' = [lpc EXCEPT ![c] = IF c \in Clients THEN "failed" ELSE "idle"]
  /\ lop' = [lop EXCEPT ![c] = NoOp]
  /\ lres' = [lres EXCEPT ![c] = NoRes]
  /\ tray' = IF c \in Clients THEN tray
             ELSE [tray EXCEPT ![DaemonPid] = abandonTick(tray[DaemonPid])]
  /\ UNCHANGED <<ledger, clock, ledgerLock, retryCount, acked>>
  /\ UNCHANGED <<pidVars, nstart, nstop, prevTick, lastTick, sd>>

(* The second clock reading of a critical section: the same millisecond or the next *)
LaterReading == {t \in Times : t = clock \/ t = clock + 1}

(* addSessionWithLock, lines 59-102: read, sweep, add or renew, write, report *)
addSessionWithLock(c) ==
  /\ lpc[c] = "cs"
  /\ lop[c].kind = "add"
  /\ Parses(ledger)
  /\ \E nowDate \in LaterReading :
       LET now == clock
           id == lop[c].id
           kept == Sweep(ledger.sessions, nowDate)
           removedCount == ExpiredCount(ledger.sessions, nowDate)
           sessions == AddOrUpdate(kept, id, now, ProjectDir(c))
           written == [exists |-> TRUE, sessions |-> sessions, last_updated |-> now]
       IN /\ ledger' = written
          /\ clock' = nowDate
          /\ lres' = [lres EXCEPT ![c] =
                        [before |-> ledger, after |-> written, now |-> now, time |-> nowDate,
                         action |-> AddAction(sessions, id, now), cleaned |-> removedCount,
                         changes |-> 0, active |-> {}, wrote |-> TRUE]]
  /\ lpc' = [lpc EXCEPT ![c] = "release"]
  /\ UNCHANGED <<ledgerLock, lop, ltries, retryCount, acked>>
  /\ UNCHANGED <<pidVars, trayVars>>

(* removeSessionWithLock, lines 116-152 *)
removeSessionWithLock(c) ==
  /\ lpc[c] = "cs"
  /\ lop[c].kind = "remove"
  /\ Parses(ledger)
  /\ \E nowDate \in LaterReading :
       LET now == clock
           id == lop[c].id
           kept == Sweep(ledger.sessions, nowDate)
           cleanedCount == ExpiredCount(ledger.sessions, nowDate)
           changes == IF id \in DOMAIN kept THEN 1 ELSE 0
           write == changes > 0 \/ cleanedCount > 0
           written == IF write
                        THEN [exists |-> TRUE, sessions |-> RemoveId(kept, id),
                              last_updated |-> now]
                        ELSE ledger
       IN /\ ledger' = written
          /\ clock' = nowDate
          /\ lres' = [lres EXCEPT ![c] =
                        [before |-> ledger, after |-> written, now |-> now, time |-> nowDate,
                         action |-> "none", cleaned |-> cleanedCount, changes |-> changes,
                         active |-> {}, wrote |-> write]]
          /\ acked' = acked \ {id}
  /\ lpc' = [lpc EXCEPT ![c] = "release"]
  /\ UNCHANGED <<ledgerLock, lop, ltries, retryCount>>
  /\ UNCHANGED <<pidVars, trayVars>>

(* getActiveSessionsWithLock, lines 166-183: filters, never writes *)
getActiveSessionsWithLock(c) ==
  /\ lpc[c] = "cs"
  /\ lop[c].kind = "list"
  /\ Parses(ledger)
  /\ lres' = [lres EXCEPT ![c] =
                [before |-> ledger, after |-> ledger, now |-> clock, time |-> clock,
                 action |-> "none", cleaned |-> 0, changes |-> 0,
                 active |-> ActiveIds(ledger.sessions, clock), wrote |-> FALSE]]
  /\ lpc' = [lpc EXCEPT ![c] = "release"]
  /\ UNCHANGED <<ledger, clock, ledgerLock, lop, ltries, retryCount, acked>>
  /\ UNCHANGED <<pidVars, trayVars>>

(* cleanupExpiredSessionsWithLock, lines 197-217 *)
cleanupExpiredSessionsWithLock(c) ==
  /\ lpc[c] = "cs"
  /\ lop[c].kind = "sweep"
  /\ Parses(ledger)
  /\ \E stamp \in LaterReading :
       LET now == clock
           kept == Sweep(ledger.sessions, now)
           removedCount == ExpiredCount(ledger.sessions, now)
           written == IF removedCount > 0
                        THEN [exists |-> TRUE, sessions |-> kept, last_updated |-> stamp]
                        ELSE ledger
       IN /\ ledger' = written
          /\ clock' = IF removedCount > 0 THEN stamp ELSE clock
          /\ lres' = [lres EXCEPT ![c] =
                        [before |-> ledger, after |-> written, now |-> now, time |-> now,
                         action |-> "none", cleaned |-> removedCount,
                         changes |-> removedCount, active |-> {}, wrote |-> removedCount > 0]]
  /\ lpc' = [lpc EXCEPT ![c] = "release"]
  /\ UNCHANGED <<ledgerLock, lop, ltries, retryCount, acked>>
  /\ UNCHANGED <<pidVars, trayVars>>

(* finally { await release() } and the operation returns.  A client exits. *)
(* A tick that has swept goes on to getActiveSessionsWithLock (whose       *)
(* initSessionsFile finds the file there), and a tick that has listed goes *)
(* on, with the list, to the decision of updateCaffeineStatus.             *)
Release(c) ==
  /\ lpc[c] = "release"
  /\ ledgerLock' = finallyRelease(c, FALSE)
  /\ lpc' = [lpc EXCEPT ![c] =
               IF c \in Clients THEN "done"
               ELSE IF lop[c].kind = "sweep" THEN "lock" ELSE "apply"]
  /\ lop' = [lop EXCEPT ![c] =
               IF c \in TickIds /\ lop[c].kind = "sweep"
                 THEN [kind |-> "list", id |-> 0] ELSE NoOp]
  /\ lres' = [lres EXCEPT ![c] =
                IF c \in TickIds /\ lop[c].kind = "list"
                  THEN [NoRes EXCEPT !.active = lres[c].active] ELSE NoRes]
  /\ acked' = IF lop[c].kind = "add" THEN acked \cup {lop[c].id} ELSE acked
  /\ UNCHANGED <<ledger, clock, ltries, retryCount>>
  /\ UNCHANGED <<pidVars, trayVars>>

(* JSON.parse throws inside the critical section of any of the four       *)
(* operations: nothing is written, the finally block is next               *)
ParseThrows(c) ==
  /\ lpc[c] = "cs"
  /\ ~Parses(ledger)
  /\ lpc' = [lpc EXCEPT ![c] = "throw"]
  /\ UNCHANGED <<ledger, clock, ledgerLock, lop, ltries, retryCount, lres, acked>>
  /\ UNCHANGED <<pidVars, trayVars>>

(* finally { await release() } and the operation throws.  A client fails;  *)
(* a tick's error is caught by updateCaffeineStatus, which ends the tick.  *)
ReleaseThrow(c) ==
  /\ lpc[c] = "throw"
  /\ ledgerLock' = finallyRelease(c, TRUE)
  /\ lpc' = [lpc EXCEPT ![c] = IF c \in Clients THEN "failed" ELSE "idle"]
  /\ lop' = [lop EXCEPT ![c] = NoOp]
  /\ lres' = [lres EXCEPT ![c] =
                IF c \in Clients THEN NoRes ELSE [NoRes EXCEPT !.action = "abandoned"]]
  /\ tray' = IF c \in Clients THEN tray
             ELSE [tray EXCEPT ![DaemonPid] = abandonTick(tray[DaemonPid])]
  /\ UNCHANGED <<ledger, clock, ltries, retryCount, acked>>
  /\ UNCHANGED <<pidVars, nstart, nstop, prevTick, lastTick, sd>>

----------------------------------------------------------------------------
(* lockfile.lock attempt by attempt, and readSessionsWithLock *)

(* Some other user of sessions.json's lock: a hook, a status command, a tick *)
Contender == NClients + NTicks + 1

(* The other user takes the lock *)
ContenderLocks ==
  /\ ledgerLock = 0
  /\ ledgerLock' = Contender
  /\ UNCHANGED <<ledger, clock, lpc, lop, ltries, retryCount, lres, acked>>
  /\ UNCHANGED <<pidVars, trayVars>>

(* The other user releases the lock *)
ContenderReleases ==
  /\ ledgerLock = Contender
  /\ ledgerLock' = 0
  /\ UNCHANGED <<ledger, clock, lpc, lop, ltries, retryCount, lres, acked>>
  /\ UNCHANGED <<pidVars, trayVars>>

(* One attempt more than the option asks for *)
retriesLeftOneMore(failed) == failed < MAX_RETRIES + 1

(* { retries: MAX_RETRIES }: after so many failed attempts, is one more made? *)
retriesLeft(failed) == failed < MAX_RETRIES

(* An attempt of lockfile.lock finds the lock held and a retry is scheduled *)
LockAttemptFails(c) ==
  /\ lpc[c] = "lock"
  /\ ledgerLock # 0
  /\ retriesLeft(ltries[c])
  /\ ltries' = [ltries EXCEPT ![c] = ltries[c] + 1]
  /\ UNCHANGED <<ledger, clock, ledgerLock, lpc, lop, retryCount, lres, acked>>
  /\ UNCHANGED <<pidVars, trayVars>>

(* The last attempt of lockfile.lock finds the lock held: ELOCKED *)
LockGivesUp(c) ==
  /\ lop[c].kind # "read"
  /\ ~retriesLeft(ltries[c])
  /\ LockBusy(c)

(* readSessionsWithLock, lines 33-35: read and parse, nothing else *)
readSessionsWithLock(c) ==
  /\ lpc[c] = "cs"
  /\ lop[c].kind = "read"
  /\ Parses(ledger)
  /\ lres' = [lres EXCEPT ![c] =
                [before |-> ledger, after |-> ledger, now |-> clock, time |-> clock,
                 action |-> "none", cleaned |-> 0, changes |-> 0, active |-> {},
                 wrote |-> FALSE]]
  /\ lpc' = [lpc EXCEPT ![c] = "release"]
  /\ UNCHANGED <<ledger, clock, ledgerLock, lop, ltries, retryCount, acked>>
  /\ UNCHANGED <<pidVars, trayVars>>

(* readSessionsWithLock, lines 36-46: an error of the try block, ELOCKED   *)
(* of lockfile.lock or the SyntaxError of JSON.parse (after the finally    *)
(* has released), reaches the catch: below MAX_RETRIES the function calls  *)
(* itself with retryCount + 1, at MAX_RETRIES it throws the error on       *)
readSessionsCatch(c) ==
  /\ lop[c].kind = "read"
  /\ \/ lpc[c] = "throw"
     \/ lpc[c] = "lock" /\ ledgerLock # 0 /\ ~retriesLeft(ltries[c])
  /\ ledgerLock' = IF lpc[c] = "throw" THEN finallyRelease(c, TRUE) ELSE ledgerLock
  /\ IF retryCount[c] < MAX_RETRIES
       THEN /\ retryCount' = [retryCount EXCEPT ![c] = retryCount[c] + 1]
            /\ ltries' = [ltries EXCEPT ![c] = 0]
            /\ lpc' = [lpc EXCEPT ![c] = IF ledger.exists THEN "lock" ELSE "init"]
            /\ lop' = lop
       ELSE /\ retryCount' = retryCount
            /\ ltries' = [ltries EXCEPT ![c] =
                            IF lpc[c] = "lock" THEN ltries[c] + 1 ELSE 0]
            /\ lpc' = [lpc EXCEPT ![c] = "failed"]
            /\ lop' = [lop EXCEPT ![c] = NoOp]
  /\ lres' = [lres EXCEPT ![c] = NoRes]
  /\ UNCHANGED <<ledger, clock, acked>>
  /\ UNCHANGED <<pidVars, trayVars>>

(* An operation other than readSessionsWithLock throws on the file's content *)
OpThrows(c) ==
  /\ lop[c].kind # "read"
  /\ ReleaseThrow(c)

(* The content of sessions.json is lost: a writer dies inside              *)
(* fs.writeFileSync, or the file is edited by hand                         *)
Damage ==
  /\ ledger.exists
  /\ Parses(ledger)
  /\ ledger' = DamagedFile
  /\ UNCHANGED <<clock, ledgerLock, lpc, lop, ltries, retryCount, lres, acked>>
  /\ UNCHANGED <<pidVars, trayVars>>

(* Time passes *)
Advance ==
  /\ \E t \in Times : t > clock /\ clock' = t
  /\ UNCHANGED <<ledger, ledgerLock, lpc, lop, ltries, retryCount, lres, acked>>
  /\ UNCHANGED <<pidVars, trayVars>>

----------------------------------------------------------------------------
(* The PID file protocol: pid.js, and handleServer / startServer of both   *)
(* server.js files.  A server process is one run of `caffeine.js server`;  *)
(* process p has PID p.                                                    *)

Servers == 1..NServers

(* A probe is a client process that asks isServerRunning: the ensureServer *)
(* of a caffeinate command                                                 *)
Probes == (NServers + 1)..(NServers + NProbes)
Procs == Servers \cup Probes

(* A PID no live process has, and the PID of a live process that is not    *)
(* a caffeine server                                                       *)
DeadPid == NServers + NProbes + 1
OtherPid == NServers + NProbes + 2

NoFile == 0

NoLocals ==
  [electron |-> FALSE, path |-> "none", pid |-> 0, result |-> FALSE, must |-> "none",
   stale |-> 0, late |-> 0]

(* The PIDs of two live processes of another user, which process.kill      *)
(* may not signal: one unrelated, one a caffeine server (started by that   *)
(* user on the same plugin directory)                                      *)
ForeignPid == NServers + NProbes + 3
ForeignServerPid == NServers + NProbes + 4

ForeignPids == {ForeignPid, ForeignServerPid}

(* Is there a process with this PID *)
ProcessExists(pid) ==
  \/ pid = OtherPid
  \/ pid \in ForeignPids
  \/ pid \in Servers /\ spc[pid] \notin {"off", "exited", "killed", "failed"}

(* process.kill(pid, 0) of validatePid: the code of the error it throws *)
KillError(pid) ==
  IF ~ProcessExists(pid) THEN "ESRCH"
  ELSE IF pid \in ForeignPids THEN "EPERM" ELSE "none"

(* The command line `ps -p pid -o command=` prints names the caffeine      *)
(* server (ps itself runs and exits with 0 for a process that exists)      *)
IsCaffeineServer(pid) == pid \in Servers \/ pid = ForeignServerPid

(* A validatePid that takes every error of process.kill for a dead process *)
validatePidAnyError(pid) == KillError(pid) = "none" /\ IsCaffeineServer(pid)

(* validatePid: only ESRCH resolves false at once; after any other error,  *)
(* as after none, the command line decides                                 *)
validatePid(pid) == KillError(pid) # "ESRCH" /\ IsCaffeineServer(pid)

(* The daemon that holds a valid PID record: it polls and the PID file     *)
(* holds its PID; 0 if there is none                                       *)
RecordHolder ==
  IF pidFile \in Servers /\ spc[pidFile] = "polling" THEN pidFile ELSE 0

(* A server process starts (the k-th to start is process k), inside        *)
(* Electron or not, and runs handleServer: the one of src/server.js, which *)
(* calls isServerRunning at once, or the one that wraps it in withPidLock. *)
Start(p) ==
  /\ spc[p] = "off"
  /\ \A q \in Servers : q < p => spc[q] # "off"
  /\ \E e \in BOOLEAN, path \in {"old", "new"} :
       /\ sloc' = [sloc EXCEPT ![p] = [NoLocals EXCEPT !.electron = e, !.path = path,
                                                      !.late = RecordHolder]]
       /\ spc' = [spc EXCEPT ![p] = IF path = "old" THEN "isr_lock" ELSE "gate"]
       /\ ssite' = [ssite EXCEPT ![p] = IF path = "old" THEN "hs_old" ELSE "hs_new"]
  /\ UNCHANGED <<pidFile, pidLock, pidGate, ledgerVars, trayVars>>

(* ensureServer of a caffeinate command (the k-th probe to start is probe  *)
(* k): it asks isServerRunning; a server it spawns is a server process of  *)
(* its own                                                                 *)
ensureServer(q) ==
  /\ q \in Probes
  /\ spc[q] = "off"
  /\ \A r \in Probes : r < q => spc[r] # "off"
  /\ spc' = [spc EXCEPT ![q] = "isr_lock"]
  /\ ssite' = [ssite EXCEPT ![q] = "client"]
  /\ UNCHANGED <<pidFile, pidLock, pidGate, sloc, ledgerVars, trayVars>>

(* withPidLock: the startup lock is taken, or is held by another process   *)
(* through every retry and the call rejects, which ends the process        *)
GateAcquire(p) ==
  /\ spc[p] = "gate"
  /\ IF pidGate = 0
       THEN /\ pidGate' = p
            /\ spc' = [spc EXCEPT ![p] = "isr_lock"]
       ELSE /\ pidGate' = pidGate
            /\ spc' = [spc EXCEPT ![p] = "failed"]
  /\ UNCHANGED <<pidFile, pidLock, ssite, sloc, ledgerVars, trayVars>>

(* readPidFile, lockfile.lock with retries: 3.  No file: ENOENT, null.     *)
(* Lock held through all four attempts: ELOCKED is thrown, and the catch   *)
(* of isServerRunning turns it into false.                                 *)
IsrLock(p) ==
  /\ spc[p] = "isr_lock"
  /\ LET stale == IF pidFile # NoFile /\ ~validatePid(pidFile) THEN pidFile ELSE 0
     IN IF pidFile = NoFile \/ pidLock # 0
          THEN /\ spc' = [spc EXCEPT ![p] = "isr_done"]
               /\ sloc' = [sloc EXCEPT ![p].result = FALSE, ![p].pid = 0, ![p].stale = stale]
               /\ pidLock' = pidLock
          ELSE /\ spc' = [spc EXCEPT ![p] = "isr_read"]
               /\ sloc' = [sloc EXCEPT ![p].stale = stale, ![p].pid = 0]
               /\ pidLock' = p
  /\ UNCHANGED <<pidFile, pidGate, ssite, ledgerVars, trayVars>>

(* readPidFile: readFile, parseInt, release.  A missing file or a content  *)
(* that is no positive number gives null, and isServerRunning false.       *)
IsrRead(p) ==
  /\ spc[p] = "isr_read"
  /\ pidLock' = 0
  /\ sloc' = [sloc EXCEPT ![p].pid = pidFile, ![p].result = FALSE]
  /\ spc' = [spc EXCEPT ![p] = IF pidFile = NoFile THEN "isr_done" ELSE "isr_validate"]
  /\ UNCHANGED <<pidFile, pidGate, ssite, ledgerVars, trayVars>>

(* validatePid: a live caffeine server makes isServerRunning true *)
IsrValidate(p) ==
  /\ spc[p] = "isr_validate"
  /\ sloc' = [sloc EXCEPT ![p].result = validatePid(sloc[p].pid)]
  /\ spc' = [spc EXCEPT ![p] = IF validatePid(sloc[p].pid) THEN "isr_done" ELSE "isr_rmlock"]
  /\ UNCHANGED <<pidFile, pidLock, pidGate, ssite, ledgerVars, trayVars>>

(* removePidFile, lockfile.lock with retries: 3.  No file: ENOENT, fine.   *)
(* Lock held through all four attempts: ELOCKED, swallowed by the catch of *)
(* isServerRunning.                                                        *)
IsrRmLock(p) ==
  /\ spc[p] = "isr_rmlock"
  /\ IF pidFile = NoFile \/ pidLock # 0
       THEN /\ spc' = [spc EXCEPT ![p] = "isr_done"]
            /\ pidLock' = pidLock
       ELSE /\ spc' = [spc EXCEPT ![p] = "isr_unlink"]
            /\ pidLock' = p
  /\ UNCHANGED <<pidFile, pidGate, ssite, sloc, ledgerVars, trayVars>>

(* removePidFile: unlink whatever the file holds now, release *)
IsrUnlink(p) ==
  /\ spc[p] = "isr_unlink"
  /\ pidFile' = NoFile
  /\ pidLock' = 0
  /\ spc' = [spc EXCEPT ![p] = "isr_done"]
  /\ UNCHANGED <<pidGate, ssite, sloc, ledgerVars, trayVars>>

(* Where a process goes when its isServerRunning returns *)
AfterIsr(site, result, electron) ==
  CASE site = "client" -> "done"
    [] site = "hs_old" -> IF result THEN "alreadyRunning"
                          ELSE IF electron THEN "isr_lock" ELSE "spawnHost"
    [] site = "ss_old" -> IF result THEN "alreadyRunning" ELSE "wp_lock"
    [] OTHER -> IF result THEN "gate_release"
                ELSE IF electron THEN "wp_lock" ELSE "gate_release"

(* isServerRunning returns to handleServer or to startServer *)
IsrReturn(p) ==
  /\ spc[p] = "isr_done"
  /\ LET l == sloc[p]
         next == AfterIsr(ssite[p], l.result, l.electron)
     IN /\ spc' = [spc EXCEPT ![p] = next]
        /\ ssite' = [ssite EXCEPT ![p] =
                       IF ssite[p] = "hs_old" /\ next = "isr_lock" THEN "ss_old" ELSE "none"]
        /\ sloc' = [sloc EXCEPT ![p] =
                      [l EXCEPT !.pid = 0, !.result = FALSE, !.stale = 0,
                                !.must = IF ssite[p] # "hs_new" \/ l.result THEN "none"
                                         ELSE IF l.electron THEN "server" ELSE "electron"]]
  /\ UNCHANGED <<pidFile, pidLock, pidGate, ledgerVars, trayVars>>


(* Where a process goes when its writePidFile returns (ok) or throws *)
AfterWrite(path, ok) ==
  IF path = "new" THEN "gate_release" ELSE IF ok THEN "start" ELSE "failed"

(* writePidFile, lockfile.lock with retries: 0.  No file: ENOENT, and the  *)
(* catch writes without a lock.  Lock held: ELOCKED is thrown; under       *)
(* src/server.js it ends the process, under withPidLock the callback's     *)
(* catch logs it, with mustStartServer already set.                        *)
WpLock(p) ==
  /\ spc[p] = "wp_lock"
  /\ IF pidFile = NoFile
       THEN /\ spc' = [spc EXCEPT ![p] = "wp_nolock"]
            /\ pidLock' = pidLock
       ELSE IF pidLock = 0
         THEN /\ spc' = [spc EXCEPT ![p] = "wp_write"]
              /\ pidLock' = p
         ELSE /\ spc' = [spc EXCEPT ![p] = AfterWrite(sloc[p].path, FALSE)]
              /\ pidLock' = pidLock
  /\ UNCHANGED <<pidFile, pidGate, ssite, sloc, ledgerVars, trayVars>>

(* writePidFile: writeFile under the lock, release *)
WpWrite(p) ==
  /\ spc[p] = "wp_write"
  /\ pidFile' = p
  /\ pidLock' = 0
  /\ spc' = [spc EXCEPT ![p] = AfterWrite(sloc[p].path, TRUE)]
  /\ UNCHANGED <<pidGate, ssite, sloc, ledgerVars, trayVars>>

(* writePidFile: writeFile of the ENOENT branch, no lock held *)
WpWriteNoLock(p) ==
  /\ spc[p] = "wp_nolock"
  /\ pidFile' = p
  /\ spc' = [spc EXCEPT ![p] = AfterWrite(sloc[p].path, TRUE)]
  /\ UNCHANGED <<pidLock, pidGate, ssite, sloc, ledgerVars, trayVars>>

(* withPidLock releases the startup lock and handleServer acts on its two  *)
(* flags: spawn Electron, start the server, or leave                       *)
GateRelease(p) ==
  /\ spc[p] = "gate_release"
  /\ pidGate' = 0
  /\ spc' = [spc EXCEPT ![p] =
               CASE sloc[p].must = "server" -> "start"
                 [] sloc[p].must = "electron" -> "spawnHost"
                 [] OTHER -> "alreadyRunning"]
  /\ UNCHANGED <<pidFile, pidLock, ssite, sloc, ledgerVars, trayVars>>

----------------------------------------------------------------------------
(* The daemon: startServer's initSessionsFile, getSystemTray, startPolling *)

NoTray ==
  [isCaffeinated |-> FALSE, powerSaveBlockerId |-> 0, pollInterval |-> FALSE,
   tray |-> FALSE, icon |-> "none"]

NoTick ==
  [valid |-> FALSE, should |-> FALSE, was |-> FALSE, started |-> 0, stopped |-> 0,
   threw |-> FALSE]

NoShutdown ==
  [timer |-> FALSE, forced |-> FALSE, was |-> FALSE, handle |-> 0, stopArg |-> 0,
   stopFailed |-> FALSE, pidTried |-> FALSE, locked |-> FALSE, seen |-> 0, left |-> 0]

(* updateTrayIcon: the icon follows isCaffeinated while the tray exists *)
updateTrayIcon(state) ==
  IF state.tray
    THEN [state EXCEPT !.icon = IF state.isCaffeinated THEN "full" ELSE "empty"]
    ELSE state

(* An enableCaffeine that forgets it has enabled *)
enableCaffeineForgetful(state, ok, handle) ==
  IF ~state.isCaffeinated
    THEN [state EXCEPT !.powerSaveBlockerId = IF ok THEN handle ELSE @]
    ELSE state

(* enableCaffeine: the flag is set, then powerSaveBlocker.start returns    *)
(* the handle (ok) or throws                                               *)
enableCaffeine(state, ok, handle) ==
  IF ~state.isCaffeinated
    THEN [state EXCEPT !.isCaffeinated = TRUE,
                       !.powerSaveBlockerId = IF ok THEN handle ELSE @]
    ELSE state

(* A disableCaffeine that keeps the handle it has passed to stop *)
disableCaffeineKeepsHandle(state, ok) ==
  IF state.isCaffeinated
    THEN [state EXCEPT !.isCaffeinated = FALSE]
    ELSE state

(* disableCaffeine: the flag is cleared, then powerSaveBlocker.stop of a   *)
(* stored handle returns (ok) or throws                                    *)
disableCaffeine(state, ok) ==
  IF state.isCaffeinated
    THEN [state EXCEPT !.isCaffeinated = FALSE,
                       !.powerSaveBlockerId = IF ok THEN 0 ELSE @]
    ELSE state

(* Does disableCaffeine call powerSaveBlocker.stop *)
StopCalled(state) == state.isCaffeinated /\ state.powerSaveBlockerId # 0

(* stopPolling *)
stopPolling(state) == [state EXCEPT !.pollInterval = FALSE]

(* initSessionsFile of startServer: fs.existsSync *)
startServer(p) ==
  /\ spc[p] = "start"
  /\ spc' = [spc EXCEPT ![p] = IF ledger.exists THEN "tray" ELSE "initw"]
  /\ UNCHANGED <<pidFile, pidLock, pidGate, ssite, sloc, ledgerVars, trayVars>>

(* initSessionsFile of startServer: fs.writeFileSync of the empty ledger *)
startServerInitWrite(p) ==
  /\ spc[p] = "initw"
  /\ ledger' = [exists |-> TRUE, sessions |-> EmptySessions, last_updated |-> clock]
  /\ spc' = [spc EXCEPT ![p] = "tray"]
  /\ UNCHANGED <<clock, ledgerLock, lpc, lop, ltries, retryCount, lres, acked>>
  /\ UNCHANGED <<pidFile, pidLock, pidGate, ssite, sloc, trayVars>>

(* The lowest free tick slot *)
FreeTick == {c \in TickIds : lpc[c] = "idle" /\ \A d \in TickIds : d < c => lpc[d] # "idle"}

(* A run of updateCaffeineStatus begins: cleanupExpiredSessionsWithLock,   *)
(* whose initSessionsFile finds the file startServer has made sure of      *)
TickBegins(c) ==
  /\ lpc' = [lpc EXCEPT ![c] = "lock"]
  /\ lop' = [lop EXCEPT ![c] = [kind |-> "sweep", id |-> 0]]

(* getSystemTray creates the tray in state Normal; startPolling runs the   *)
(* initial check and arms the timer.  Ticks are followed for DaemonPid.    *)
startPolling(p) ==
  /\ spc[p] = "tray"
  /\ tray' = [tray EXCEPT ![p] =
                [isCaffeinated |-> FALSE, powerSaveBlockerId |-> 0, pollInterval |-> TRUE,
                 tray |-> TRUE, icon |-> "empty"]]
  /\ spc' = [spc EXCEPT ![p] = "polling"]
  /\ IF p = DaemonPid
       THEN \E c \in FreeTick : TickBegins(c)
       ELSE UNCHANGED <<lpc, lop>>
  /\ UNCHANGED <<ledger, clock, ledgerLock, ltries, retryCount, lres, acked>>
  /\ UNCHANGED <<pidFile, pidLock, pidGate, ssite, sloc>>
  /\ UNCHANGED <<nstart, nstop, prevTick, lastTick, sd>>

(* The interval timer fires *)
TimerFire(c) ==
  /\ spc[DaemonPid] = "polling"
  /\ tray[DaemonPid].pollInterval
  /\ c \in FreeTick
  /\ TickBegins(c)
  /\ UNCHANGED <<ledger, clock, ledgerLock, ltries, retryCount, lres, acked>>
  /\ UNCHANGED <<pidVars, trayVars>>

(* updateCaffeineStatus, lines 152-160: the decision and its transition.   *)
(* A throwing start or stop leaves through the catch, past updateTrayIcon. *)
TickApply(c) ==
  /\ c \in TickIds
  /\ lpc[c] = "apply"
  /\ LET state == tray[DaemonPid]
         shouldCaffeinate == lres[c].active # {}
         enable == shouldCaffeinate /\ ~state.isCaffeinated
         disable == ~shouldCaffeinate /\ state.isCaffeinated
         stop == disable /\ StopCalled(state)
     IN \E ok \in BOOLEAN :
          LET after == IF enable THEN enableCaffeine(state, ok, nstart + 1)
                       ELSE IF disable THEN disableCaffeine(state, ok)
                       ELSE state
              threw == (enable \/ stop) /\ ~ok
          IN /\ tray' = [tray EXCEPT ![DaemonPid] =
                           IF threw THEN after ELSE updateTrayIcon(after)]
             /\ nstart' = IF enable THEN nstart + 1 ELSE nstart
             /\ nstop' = IF stop THEN nstop + 1 ELSE nstop
             /\ prevTick' = lastTick
             /\ lastTick' = [valid |-> TRUE, should |-> shouldCaffeinate,
                             was |-> state.isCaffeinated,
                             started |-> IF enable THEN 1 ELSE 0,
                             stopped |-> IF stop THEN 1 ELSE 0,
                             threw |-> threw]
  /\ lpc' = [lpc EXCEPT ![c] = "idle"]
  /\ lres' = [lres EXCEPT ![c] = NoRes]
  /\ UNCHANGED <<ledger, clock, ledgerLock, lop, ltries, retryCount, acked, sd>>
  /\ UNCHANGED pidVars


----------------------------------------------------------------------------
(* shutdownServer.  Its synchronous part (stopPolling, disableCaffeine,    *)
(* tray.destroy) runs without any tick of the same process in between; a   *)
(* tick already past its await can still run while the PID file removal    *)
(* is awaited.                                                             *)

(* The Exit menu entry: shutdownServer begins with stopPolling *)
shutdownServer(p) ==
  /\ spc[p] = "polling"
  /\ tray' = [tray EXCEPT ![p] = stopPolling(tray[p])]
  /\ sd' = [sd EXCEPT ![p] = [NoShutdown EXCEPT !.timer = TRUE]]
  /\ spc' = [spc EXCEPT ![p] = "sd_disable"]
  /\ UNCHANGED <<pidFile, pidLock, pidGate, ssite, sloc, ledgerVars>>
  /\ UNCHANGED <<nstart, nstop, prevTick, lastTick>>

(* A shutdownServer without the try around disableCaffeine *)
AfterDisableUncaught(ok) == IF ok THEN "sd_tray" ELSE "sd_reset"

(* Where shutdownServer goes after disableCaffeine returned (ok) or threw *)
AfterDisable(ok) == "sd_tray"

(* try { disableCaffeine(state) } catch: logged, shutdown goes on *)
ShutdownDisable(p) ==
  /\ spc[p] = "sd_disable"
  /\ \E ok \in BOOLEAN :
       LET state == tray[p]
           stop == StopCalled(state)
           after == disableCaffeine(state, ok)
       IN /\ tray' = [tray EXCEPT ![p] = after]
          /\ nstop' = IF stop THEN nstop + 1 ELSE nstop
          /\ sd' = [sd EXCEPT ![p].forced = ~after.isCaffeinated,
                              ![p].was = state.isCaffeinated,
                              ![p].handle = state.powerSaveBlockerId,
                              ![p].stopArg = IF stop THEN state.powerSaveBlockerId ELSE 0,
                              ![p].stopFailed = stop /\ ~ok]
          /\ spc' = [spc EXCEPT ![p] = AfterDisable(~stop \/ ok)]
  /\ prevTick' = IF p = DaemonPid THEN NoTick ELSE prevTick
  /\ lastTick' = IF p = DaemonPid THEN NoTick ELSE lastTick
  /\ UNCHANGED <<pidFile, pidLock, pidGate, ssite, sloc, ledgerVars, nstart>>

(* state.tray.destroy(); state.tray = null *)
ShutdownTray(p) ==
  /\ spc[p] = "sd_tray"
  /\ tray' = [tray EXCEPT ![p].tray = FALSE, ![p].icon = "none"]
  /\ spc' = [spc EXCEPT ![p] = "rm_lock"]
  /\ UNCHANGED <<pidFile, pidLock, pidGate, ssite, sloc, ledgerVars>>
  /\ UNCHANGED <<nstart, nstop, prevTick, lastTick, sd>>

(* removePidFileWithLock takes the startup lock, or finds it held through  *)
(* every retry and rejects, which shutdownServer logs                      *)
RmLock(p) ==
  /\ spc[p] = "rm_lock"
  /\ IF pidGate = 0
       THEN /\ pidGate' = p
            /\ spc' = [spc EXCEPT ![p] = "rm_cs"]
            /\ sd' = [sd EXCEPT ![p].pidTried = TRUE, ![p].locked = TRUE]
       ELSE /\ pidGate' = pidGate
            /\ spc' = [spc EXCEPT ![p] = "sd_reset"]
            /\ sd' = [sd EXCEPT ![p].pidTried = TRUE]
  /\ UNCHANGED <<pidFile, pidLock, ssite, sloc, ledgerVars>>
  /\ UNCHANGED <<tray, nstart, nstop, prevTick, lastTick>>

(* A removal that does not look whose record it is *)
releaseAlways(stored, own) == NoFile

(* The file after the removal: gone if it held the caller's own PID *)
releaseIfOwner(stored, own) == IF stored = own THEN NoFile ELSE stored

(* removePidFileWithLock: the guarded unlink, then the lock is released *)
RmUnlink(p) ==
  /\ spc[p] = "rm_cs"
  /\ pidFile' = releaseIfOwner(pidFile, p)
  /\ pidGate' = 0
  /\ sd' = [sd EXCEPT ![p].seen = pidFile, ![p].left = releaseIfOwner(pidFile, p)]
  /\ spc' = [spc EXCEPT ![p] = "sd_reset"]
  /\ UNCHANGED <<pidLock, ssite, sloc, ledgerVars>>
  /\ UNCHANGED <<tray, nstart, nstop, prevTick, lastTick>>

(* The process ends: its ticks end with it and the exit hook of            *)
(* proper-lockfile releases a ledger lock one of them holds                *)
ProcessEnds(p) ==
  IF p = DaemonPid
    THEN /\ lpc' = [c \in Callers |-> IF c \in TickIds THEN "idle" ELSE lpc[c]]
         /\ lop' = [c \in Callers |-> IF c \in TickIds THEN NoOp ELSE lop[c]]
         /\ lres' = [c \in Callers |-> IF c \in TickIds THEN NoRes ELSE lres[c]]
         /\ ledgerLock' = IF ledgerLock \in TickIds THEN 0 ELSE ledgerLock
         /\ prevTick' = NoTick
         /\ lastTick' = NoTick
    ELSE UNCHANGED <<lpc, lop, lres, ledgerLock, prevTick, lastTick>>

(* trayState = null; process.exit(0) *)
ShutdownExit(p) ==
  /\ spc[p] = "sd_reset"
  /\ spc' = [spc EXCEPT ![p] = "exited"]
  /\ tray' = [tray EXCEPT ![p] = [tray[p] EXCEPT !.tray = FALSE, !.icon = "none"]]
  /\ ProcessEnds(p)
  /\ UNCHANGED <<ledger, clock, ltries, retryCount, acked>>
  /\ UNCHANGED <<pidFile, pidLock, pidGate, ssite, sloc>>
  /\ UNCHANGED <<nstart, nstop, sd>>

(* SIGINT or SIGTERM: the handler setupAppEventHandlers registered first   *)
(* calls process.exit(0); shutdownServer does not run                      *)
Signal(p) ==
  /\ spc[p] = "polling"
  /\ spc' = [spc EXCEPT ![p] = "killed"]
  /\ tray' = [tray EXCEPT ![p] = [tray[p] EXCEPT !.tray = FALSE, !.icon = "none",
                                               !.pollInterval = FALSE]]
  /\ ProcessEnds(p)
  /\ UNCHANGED <<ledger, clock, ltries, retryCount, acked>>
  /\ UNCHANGED <<pidFile, pidLock, pidGate, ssite, sloc>>
  /\ UNCHANGED <<nstart, nstop, sd>>

(* The steps a tick of the followed daemon can take: those of its two      *)
(* ledger operations and its decision, while the process runs and is not   *)
(* inside the synchronous part of shutdownServer                           *)
TickRuns == spc[DaemonPid] \in {"polling", "rm_lock", "rm_cs"}

(* One step of a tick: of its sweep, of its list, or its decision *)
updateCaffeineStatus(c) ==
  /\ c \in TickIds
  /\ TickRuns
  /\ \/ LockAcquire(c)
     \/ LockBusy(c)
     \/ getActiveSessionsWithLock(c)
     \/ cleanupExpiredSessionsWithLock(c)
     \/ Release(c)
     \/ TickApply(c)

(* A step of a tick whose ledger operation throws on the file's content *)
TickFails(c) ==
  /\ c \in TickIds
  /\ TickRuns
  /\ \/ ParseThrows(c)
     \/ ReleaseThrow(c)

----------------------------------------------------------------------------
InitLedger ==
  /\ ledger = MissingFile
  /\ clock = 0
  /\ ledgerLock = 0
  /\ lpc = [c \in Callers |-> "idle"]
  /\ lop = [c \in Callers |-> NoOp]
  /\ ltries = [c \in Callers |-> 0]
  /\ retryCount = [c \in Callers |-> 0]
  /\ lres = [c \in Callers |-> NoRes]
  /\ acked = {}

InitLocals ==
  /\ pidLock = 0
  /\ pidGate = 0
  /\ ssite = [p \in Procs |-> "none"]
  /\ sloc = [p \in Procs |-> NoLocals]
  /\ tray = [p \in Servers |-> NoTray]
  /\ nstart = 0
  /\ nstop = 0
  /\ prevTick = NoTick
  /\ lastTick = NoTick
  /\ sd = [p \in Servers |-> NoShutdown]

(* No server process has started; there is no PID file *)
Init ==
  /\ InitLedger
  /\ InitLocals
  /\ pidFile = NoFile
  /\ spc = [p \in Procs |-> "off"]

(* No server process has started; the PID file is missing or left over     *)
(* from a dead process or reused by an unrelated one                       *)
InitPid ==
  /\ InitLedger
  /\ InitLocals
  /\ pidFile \in {NoFile, DeadPid, OtherPid}
  /\ spc = [p \in Procs |-> "off"]

(* No server process has started; the PID file is missing, left over from  *)
(* a dead process, reused by an unrelated process, or names a process of   *)
(* another user                                                            *)
InitReuse ==
  /\ InitLedger
  /\ InitLocals
  /\ pidFile \in {NoFile, DeadPid, OtherPid, ForeignPid, ForeignServerPid}
  /\ spc = [p \in Procs |-> "off"]

(* The session a caffeinate command that has returned left in the ledger *)
OneSession ==
  [id \in {1} |-> [created_at |-> 0, last_activity |-> 0, project_dir |-> ProjectDir(1)]]

(* Process DaemonPid has written its PID and enters startServer's try; the *)
(* ledger holds the session of one caffeinate command, which has returned  *)
InitTicks ==
  /\ ledger = [exists |-> TRUE, sessions |-> OneSession, last_updated |-> 0]
  /\ clock = 0
  /\ ledgerLock = 0
  /\ lpc = [c \in Callers |-> IF c = 1 THEN "done" ELSE "idle"]
  /\ lop = [c \in Callers |-> NoOp]
  /\ ltries = [c \in Callers |-> 0]
  /\ retryCount = [c \in Callers |-> 0]
  /\ lres = [c \in Callers |-> NoRes]
  /\ acked = {1}
  /\ InitLocals
  /\ pidFile = DaemonPid
  /\ spc = [p \in Procs |-> IF p = DaemonPid THEN "start" ELSE "off"]

(* sessions.json holds the session of a caffeinate command that has        *)
(* returned; no client process has started yet                             *)
InitStocked ==
  /\ ledger = [exists |-> TRUE, sessions |-> OneSession, last_updated |-> 0]
  /\ clock = 0
  /\ ledgerLock = 0
  /\ lpc = [c \in Callers |-> "idle"]
  /\ lop = [c \in Callers |-> NoOp]
  /\ ltries = [c \in Callers |-> 0]
  /\ retryCount = [c \in Callers |-> 0]
  /\ lres = [c \in Callers |-> NoRes]
  /\ acked = {1}
  /\ InitLocals
  /\ pidFile = NoFile
  /\ spc = [p \in Procs |-> "off"]

(* Process DaemonPid has written its PID and enters startServer's try *)
InitTray ==
  /\ InitLedger
  /\ InitLocals
  /\ pidFile = DaemonPid
  /\ spc = [p \in Procs |-> IF p = DaemonPid THEN "start" ELSE "off"]

LedgerStep(c) ==
  \/ InitWrite(c)
  \/ LockAcquire(c)
  \/ LockBusy(c)
  \/ addSessionWithLock(c)
  \/ removeSessionWithLock(c)
  \/ getActiveSessionsWithLock(c)
  \/ cleanupExpiredSessionsWithLock(c)
  \/ Release(c)

(* The steps of a caffeinate or uncaffeinate command's ledger operation *)
HookStep(c) ==
  \/ InitWrite(c)
  \/ LockAcquire(c)
  \/ LockBusy(c)
  \/ addSessionWithLock(c)
  \/ removeSessionWithLock(c)
  \/ Release(c)

NextLedger ==
  \/ \E p \in Clients : Call(p)
  \/ \E c \in Clients : LedgerStep(c)
  \/ Advance

(* The steps of a ledger operation whose initSessionsFile finds the file *)
LockedStep(c) ==
  \/ LockAcquire(c)
  \/ LockBusy(c)
  \/ addSessionWithLock(c)
  \/ removeSessionWithLock(c)
  \/ getActiveSessionsWithLock(c)
  \/ cleanupExpiredSessionsWithLock(c)
  \/ Release(c)

NextStocked ==
  \/ \E p \in Clients : Call(p)
  \/ \E c \in Clients : LockedStep(c)
  \/ Advance

(* The process whose ledger operation meets the contention *)
Caller == 1

(* It calls one of the five exported operations *)
CallUnderContention ==
  Begin(Caller, OpKinds \cup {"read"})

(* The steps of its operation, lockfile.lock attempt by attempt *)
ContendedStep(c) ==
  \/ LockAcquire(c)
  \/ LockAttemptFails(c)
  \/ LockGivesUp(c)
  \/ addSessionWithLock(c)
  \/ removeSessionWithLock(c)
  \/ getActiveSessionsWithLock(c)
  \/ cleanupExpiredSessionsWithLock(c)
  \/ readSessionsWithLock(c)
  \/ Release(c)
  \/ ParseThrows(c)
  \/ OpThrows(c)
  \/ readSessionsCatch(c)

NextContended ==
  \/ CallUnderContention
  \/ ContendedStep(Caller)
  \/ ContenderLocks
  \/ ContenderReleases
  \/ Damage

(* One process, a test or a script, calls the ledger operations one after  *)
(* another: a call begins when the call before it has returned             *)
CallNext(p) ==
  /\ p \in Clients
  /\ \A q \in Clients : q < p => lpc[q] = "done"
  /\ Begin(p, OpKinds)

(* The steps of a ledger operation that no other operation runs beside *)
SerialStep(c) ==
  \/ InitWrite(c)
  \/ LockAcquire(c)
  \/ addSessionWithLock(c)
  \/ removeSessionWithLock(c)
  \/ getActiveSessionsWithLock(c)
  \/ cleanupExpiredSessionsWithLock(c)
  \/ Release(c)

NextSerial ==
  \/ \E p \in Clients : CallNext(p)
  \/ \E c \in Clients : SerialStep(c)
  \/ Advance

(* The steps of a daemon that finds the ledger file in place *)
ServeStep(p) ==
  \/ startServer(p)
  \/ startPolling(p)
  \/ shutdownServer(p)
  \/ ShutdownDisable(p)
  \/ ShutdownTray(p)
  \/ RmLock(p)
  \/ RmUnlink(p)
  \/ ShutdownExit(p)
  \/ Signal(p)

DaemonStep(p) ==
  \/ startServerInitWrite(p)
  \/ ServeStep(p)

(* The steps of handleServer up to the point where the process serves *)
handleServer(p) ==
  \/ Start(p)
  \/ GateAcquire(p)
  \/ IsrLock(p)
  \/ IsrRead(p)
  \/ IsrValidate(p)
  \/ IsrRmLock(p)
  \/ IsrUnlink(p)
  \/ IsrReturn(p)
  \/ WpLock(p)
  \/ WpWrite(p)
  \/ WpWriteNoLock(p)
  \/ GateRelease(p)

NextPid ==
  \/ \E p \in Servers : handleServer(p)
  \/ \E p \in Servers : DaemonStep(p)

(* The steps of a probe's isServerRunning *)
ProbeStep(q) ==
  \/ ensureServer(q)
  \/ IsrLock(q)
  \/ IsrRead(q)
  \/ IsrValidate(q)
  \/ IsrRmLock(q)
  \/ IsrUnlink(q)
  \/ IsrReturn(q)

NextProbe ==
  \/ \E p \in Servers : handleServer(p)
  \/ \E p \in Servers : DaemonStep(p)
  \/ \E q \in Probes : ProbeStep(q)

NextTicks ==
  \/ \E c \in TickIds : updateCaffeineStatus(c)
  \/ \E c \in TickIds : TimerFire(c)
  \/ ServeStep(DaemonPid)
  \/ Advance

NextTray ==
  \/ \E p \in HookClients : handleSessionCommand(p)
  \/ \E c \in HookClients : HookStep(c)
  \/ \E c \in TickIds : updateCaffeineStatus(c)
  \/ \E c \in TickIds : TimerFire(c)
  \/ DaemonStep(DaemonPid)
  \/ Advance

(* The client processes that run the status command *)
StatusClients == Clients \ HookClients

(* The isServerRunning of the status command of client p, if one is followed *)
StatusProbe(p) == NServers + (p - NHooks)

(* handleStatus: when its isServerRunning has returned it calls            *)
(* getActiveSessionsWithLock, whose initSessionsFile tests fs.existsSync   *)
handleStatus(p) ==
  /\ p \in StatusClients
  /\ lpc[p] = "idle"
  /\ \A q \in StatusClients : q < p => lpc[q] # "idle"
  /\ StatusProbe(p) \in Probes => spc[StatusProbe(p)] = "done"
  /\ lop' = [lop EXCEPT ![p] = [kind |-> "list", id |-> 0]]
  /\ lpc' = [lpc EXCEPT ![p] = IF ledger.exists THEN "lock" ELSE "init"]
  /\ UNCHANGED <<ledger, clock, ledgerLock, ltries, retryCount, lres, acked>>
  /\ UNCHANGED <<pidVars, trayVars>>

(* The steps of a status command's ledger operation *)
StatusStep(c) ==
  \/ InitWrite(c)
  \/ LockAcquire(c)
  \/ LockBusy(c)
  \/ getActiveSessionsWithLock(c)
  \/ Release(c)

(* The isServerRunning of the caffeinate command of client p *)
HookProbe(p) == NServers + p

(* A handleSessionCommand that makes sure of the server after every command *)
ensuresServerAlways(kind) == TRUE

(* handleSessionCommand, `if (action === 'caffeinate')`: caffeinate is the *)
(* command whose sessionOperation is addSessionWithLock                    *)
ensuresServer(kind) == kind = "add"

(* handleSessionCommand: `await sessionOperation(sessionId)` returns, the  *)
(* lock released; the command is over unless it is caffeinate              *)
sessionOperationReturns(c) ==
  /\ lpc[c] = "release"
  /\ ledgerLock' = finallyRelease(c, FALSE)
  /\ lpc' = [lpc EXCEPT ![c] = IF ensuresServer(lop[c].kind) THEN "ensure" ELSE "done"]
  /\ lres' = [lres EXCEPT ![c] = NoRes]
  /\ acked' = IF lop[c].kind = "add" THEN acked \cup {lop[c].id} ELSE acked
  /\ UNCHANGED <<ledger, clock, lop, ltries, retryCount>>
  /\ UNCHANGED <<pidVars, trayVars>>

(* runServerProcessIfNotStarted (ensureServer): the command asks whether a *)
(* server is running                                                       *)
runServerProcessIfNotStarted(c) ==
  /\ lpc[c] = "ensure"
  /\ spc[HookProbe(c)] = "off"
  /\ lpc' = [lpc EXCEPT ![c] = "probing"]
  /\ spc' = [spc EXCEPT ![HookProbe(c)] = "isr_lock"]
  /\ ssite' = [ssite EXCEPT ![HookProbe(c)] = "client"]
  /\ UNCHANGED <<ledger, clock, ledgerLock, lop, ltries, retryCount, lres, acked>>
  /\ UNCHANGED <<pidFile, pidLock, pidGate, sloc, trayVars>>

(* The answer is yes: 'Server is already running', and the command returns *)
serverAlreadyRunning(c) ==
  /\ lpc[c] = "probing"
  /\ spc[HookProbe(c)] = "isr_done"
  /\ sloc[HookProbe(c)].result
  /\ lpc' = [lpc EXCEPT ![c] = "done"]
  /\ spc' = [spc EXCEPT ![HookProbe(c)] = "done"]
  /\ UNCHANGED <<ledger, clock, ledgerLock, lop, ltries, retryCount, lres, acked>>
  /\ UNCHANGED <<pidFile, pidLock, pidGate, ssite, sloc, trayVars>>

(* The answer is no: startServerProcess spawns `npm run server`, detached  *)
(* (the next process that has not started yet), and the command returns    *)
startServerProcess(c) ==
  /\ lpc[c] = "probing"
  /\ spc[HookProbe(c)] = "isr_done"
  /\ ~sloc[HookProbe(c)].result
  /\ \E s \in Servers :
       /\ spc[s] = "off"
       /\ \A r \in Servers : r < s => spc[r] # "off"
       /\ spc' = [spc EXCEPT ![HookProbe(c)] = "done", ![s] = "spawned"]
  /\ lpc' = [lpc EXCEPT ![c] = "done"]
  /\ UNCHANGED <<ledger, clock, ledgerLock, lop, ltries, retryCount, lres, acked>>
  /\ UNCHANGED <<pidFile, pidLock, pidGate, ssite, sloc, trayVars>>

(* The steps of a caffeinate or uncaffeinate command from its first line   *)
(* to its return or its process.exit(1)                                    *)
CommandStep(c) ==
  \/ InitWrite(c)
  \/ LockAcquire(c)
  \/ LockBusy(c)
  \/ addSessionWithLock(c)
  \/ removeSessionWithLock(c)
  \/ ParseThrows(c)
  \/ ReleaseThrow(c)
  \/ sessionOperationReturns(c)
  \/ runServerProcessIfNotStarted(c)
  \/ serverAlreadyRunning(c)
  \/ startServerProcess(c)

(* The steps of the command's isServerRunning *)
IsServerRunningStep(q) ==
  \/ IsrLock(q)
  \/ IsrRead(q)
  \/ IsrValidate(q)
  \/ IsrRmLock(q)
  \/ IsrUnlink(q)

(* Hook commands from end to end, beside another user of the ledger's lock *)
(* and on a ledger file that can lose its content                          *)
NextHooks ==
  \/ \E p \in HookClients : handleSessionCommand(p)
  \/ \E c \in HookClients : CommandStep(c)
  \/ \E c \in HookClients : IsServerRunningStep(HookProbe(c))
  \/ ContenderLocks
  \/ ContenderReleases
  \/ Damage

(* The steps of a client whose ledger operation throws on the file's content *)
OpFails(c) ==
  \/ ParseThrows(c)
  \/ ReleaseThrow(c)

(* The daemon and its ticks over a ledger file that can lose its content *)
NextFaulty ==
  \/ \E c \in TickIds : updateCaffeineStatus(c)
  \/ \E c \in TickIds : TickFails(c)
  \/ \E c \in TickIds : TimerFire(c)
  \/ ServeStep(DaemonPid)
  \/ Damage
  \/ Advance

(* Hook commands and status commands on a ledger file that can lose its    *)
(* content and a PID file that can be stale                                *)
NextLocks ==
  \/ \E p \in HookClients : handleSessionCommand(p)
  \/ \E c \in HookClients : HookStep(c)
  \/ \E q \in Probes : ProbeStep(q)
  \/ \E p \in StatusClients : handleStatus(p)
  \/ \E c \in StatusClients : StatusStep(c)
  \/ \E c \in Clients : OpFails(c)
  \/ Damage

SpecLedger == Init /\ [][NextLedger]_vars

SpecFaulty == InitTicks /\ [][NextFaulty]_vars

SpecLocks == InitPid /\ [][NextLocks]_vars

SpecStocked == InitStocked /\ [][NextStocked]_vars

SpecReuse == InitReuse /\ [][NextLocks]_vars

SpecSerial == Init /\ [][NextSerial]_vars

SpecHooks == InitReuse /\ [][NextHooks]_vars

(* The calling process runs: its timers fire and its awaits resume.  The   *)
(* other user of the lock owes nothing.                                    *)
FairCaller == WF_vars(CallUnderContention \/ ContendedStep(Caller))

SpecContended == InitStocked /\ [][NextContended]_vars /\ FairCaller

SpecPid == InitPid /\ [][NextPid]_vars

SpecProbe == InitPid /\ [][NextProbe]_vars

SpecTray == InitTray /\ [][NextTray]_vars

SpecTicks == InitTicks /\ [][NextTicks]_vars

(* setInterval keeps firing while the timer is armed, and the event loop   *)
(* resumes every tick whose await has settled                              *)
FairPolling ==
  /\ WF_vars(\E c \in TickIds : TimerFire(c))
  /\ \A c \in TickIds : WF_vars(updateCaffeineStatus(c))

SpecPolling == InitTicks /\ [][NextTicks]_vars /\ FairPolling

----------------------------------------------------------------------------
(* Properties of the session ledger *)

Mutating == {"add", "remove", "sweep"}

(* C1: once each of the N client processes has returned from an add/renew  *)
(* call (pairwise distinct ids, none old enough to expire), the ledger     *)
(* holds all N ids - also when the file did not exist and each caller ran  *)
(* initSessionsFile first.                                                 *)
C1_NoLostUpdates ==
  ( /\ \A c \in Clients : lpc[c] = "done"
    /\ Cardinality(acked) = NClients
    /\ clock < SESSION_TIMEOUT )
  => acked \subseteq DOMAIN ledger.sessions

(* C4, as claimed: right after any ledger operation, listActive included,  *)
(* no session whose last_activity is 15 minutes or more before the         *)
(* operation's time is left in the persisted ledger.                       *)
C4_ExpiredAbsentAfterAnyOp ==
  \A c \in Clients :
    lpc[c] = "release" =>
      \A id \in DOMAIN ledger.sessions : ~Expired(ledger.sessions[id], lres[c].time)

(* C4, amended: that holds right after add/renew, remove and sweepExpired; *)
(* listActive leaves such a session in the file and only keeps it out of   *)
(* the list it returns.                                                    *)
C4_ExpiredAbsentAfterMutatingOp ==
  \A c \in Clients :
    lpc[c] = "release" =>
      /\ lop[c].kind \in Mutating =>
            \A id \in DOMAIN ledger.sessions : ~Expired(ledger.sessions[id], lres[c].time)
      /\ lop[c].kind = "list" =>
            /\ lres[c].after = lres[c].before
            /\ \A id \in lres[c].active :
                  ~Expired(lres[c].before.sessions[id], lres[c].time)

(* A mutating operation has just purged a session that was exactly or more *)
(* than 15 minutes old.                                                    *)
C4_Witness ==
  \E c \in Clients :
    /\ lpc[c] = "release"
    /\ lop[c].kind \in Mutating
    /\ \E id \in DOMAIN lres[c].before.sessions :
         /\ Expired(lres[c].before.sessions[id], lres[c].time)
         /\ lres[c].time - lres[c].before.sessions[id].last_activity = SESSION_TIMEOUT
         /\ id \notin DOMAIN ledger.sessions

(* C5: an add/renew for an id that an add at the same clock value has      *)
(* created reports "updated" and keeps created_at; an add for an absent id *)
(* reports "added".                                                        *)
C5_IdempotentRenew ==
  \A c \in Clients :
    (lpc[c] = "release" /\ lop[c].kind = "add") =>
      LET id == lop[c].id
          b == lres[c].before.sessions
      IN /\ id \notin DOMAIN b => lres[c].action = "added"
         /\ (id \in DOMAIN b /\ b[id].created_at = lres[c].now
                /\ b[id].last_activity = lres[c].now) =>
              /\ lres[c].action = "updated"
              /\ lres[c].after.sessions[id].created_at = b[id].created_at

----------------------------------------------------------------------------
(* Properties of the tray controller *)

(* C7: of two consecutive completed ticks that both find an active         *)
(* session, the first of them starting in state Normal, exactly one calls  *)
(* powerSaveBlocker.start; and a tick whose desired state is the current   *)
(* state calls neither start nor stop.                                     *)
C7_SuppressionIdempotence ==
  /\ ( /\ prevTick.valid /\ lastTick.valid
       /\ ~prevTick.was /\ prevTick.should /\ lastTick.should )
     => prevTick.started + lastTick.started = 1
  /\ (lastTick.valid /\ lastTick.should = lastTick.was)
     => (lastTick.started = 0 /\ lastTick.stopped = 0)

(* Two consecutive ticks have completed, both saw an active session, the   *)
(* first one started suppression from Normal and the second did nothing.   *)
C7_Witness ==
  /\ prevTick.valid /\ lastTick.valid
  /\ ~prevTick.was /\ prevTick.should /\ prevTick.started = 1
  /\ lastTick.should /\ lastTick.was /\ lastTick.started = 0

(* C8: in every state of a daemon the handle powerSaveBlockerId is present *)
(* exactly when isCaffeinated is true, also after a start or stop call     *)
(* that threw.                                                             *)
C8_HandleIffCaffeinated ==
  \A p \in Servers : (tray[p].powerSaveBlockerId # 0) <=> tray[p].isCaffeinated

(* C10: shutdownServer has cancelled the timer before it forces the state  *)
(* to Normal, has forced it (calling stop with the stored handle when      *)
(* suppression was active) before it tries to remove the PID record, and   *)
(* has tried to remove the PID record by the time it returns, also when    *)
(* the stop call threw.                                                    *)
C10_ShutdownSequencing ==
  \A p \in Servers :
    /\ spc[p] \in {"sd_disable", "sd_tray", "rm_lock", "rm_cs", "sd_reset", "exited"}
         => (sd[p].timer /\ ~tray[p].pollInterval)
    /\ spc[p] \in {"sd_tray", "rm_lock", "rm_cs", "sd_reset", "exited"}
         => /\ sd[p].forced
            /\ (sd[p].was /\ sd[p].handle # 0) => sd[p].stopArg = sd[p].handle
    /\ sd[p].pidTried => (sd[p].timer /\ sd[p].forced)
    /\ spc[p] \in {"sd_reset", "exited"} => sd[p].pidTried

(* A shutdown whose stop call threw has gone on to remove the PID record *)
C10_Witness ==
  \E p \in Servers :
    /\ spc[p] = "sd_reset"
    /\ sd[p].was /\ sd[p].stopArg # 0 /\ sd[p].stopFailed
    /\ sd[p].locked /\ sd[p].seen = p /\ pidFile = NoFile

----------------------------------------------------------------------------
(* Properties of the PID file protocol *)

(* The program points of a process that serves as the daemon *)
DaemonPcs == {"start", "initw", "tray", "polling"}

(* C2: of the processes that run the server-start path, at most one is     *)
(* the polling daemon at any time.                                         *)
C2_SingleDaemon ==
  Cardinality({p \in Servers : spc[p] = "polling"}) <= 1

(* C3: a process that started handleServer while a live daemon held a      *)
(* valid PID record does not, as long as that daemon lives, overwrite the  *)
(* PID file or go on to serve as a daemon.                                 *)
C3_NoDaemonBesideLiveDaemon ==
  \A p \in Servers :
    (sloc[p].late # 0 /\ spc[sloc[p].late] = "polling")
      => (spc[p] \notin DaemonPcs /\ pidFile # p)

(* C6: an isServerRunning that was called with a PID file naming no live   *)
(* caffeine server returns false and the PID file is gone when it returns. *)
C6_StalePidSelfHeal ==
  \A p \in Servers :
    (spc[p] = "isr_done" /\ sloc[p].stale # 0)
      => (~sloc[p].result /\ pidFile = NoFile)

----------------------------------------------------------------------------
(* Error paths of the tick *)

(* This step leaves the suppression state and the host calls as they are *)
SuppressionUntouched ==
  /\ tray'[DaemonPid].isCaffeinated = tray[DaemonPid].isCaffeinated
  /\ tray'[DaemonPid].powerSaveBlockerId = tray[DaemonPid].powerSaveBlockerId
  /\ nstart' = nstart
  /\ nstop' = nstop

(* Tick c takes a step of its sweep or of its list, among them the step on *)
(* which the operation fails and the tick ends                             *)
LedgerStepOfTick(c) ==
  /\ lpc[c] \in {"lock", "cs", "release", "throw"}
  /\ lpc'[c] # lpc[c]
  /\ spc'[DaemonPid] = spc[DaemonPid]

(* C11: a tick whose cleanupExpiredSessionsWithLock or                     *)
(* getActiveSessionsWithLock fails, on a lock that stays held or on a file *)
(* that does not parse, ends without changing isCaffeinated or             *)
(* powerSaveBlockerId and without a call of powerSaveBlocker.start or      *)
(* .stop: no step of a tick before its decision touches them, and a failed *)
(* tick never reaches its decision.                                        *)
C11_FailSafeTick ==
  [][\A c \in TickIds :
       /\ LedgerStepOfTick(c) => SuppressionUntouched
       /\ (LedgerStepOfTick(c) /\ lpc'[c] = "idle") => lastTick' = lastTick]_vars

(* A tick has been abandoned on a file that does not parse, and the daemon *)
(* is still suppressing with its handle.                                   *)
C11_Witness ==
  \E c \in TickIds :
    /\ lpc[c] = "idle"
    /\ lres[c].action = "abandoned"
    /\ ledger = DamagedFile
    /\ spc[DaemonPid] = "polling"
    /\ tray[DaemonPid].isCaffeinated
    /\ tray[DaemonPid].powerSaveBlockerId # 0

(* C12: after a tick whose powerSaveBlocker.start threw, the controller is *)
(* still Normal without a handle, and the next tick that finds an active   *)
(* session calls powerSaveBlocker.start again.                             *)
C12_FailedStartIsRetried ==
  /\ (lastTick.valid /\ lastTick.started = 1 /\ lastTick.threw)
       => /\ ~tray[DaemonPid].isCaffeinated
          /\ tray[DaemonPid].powerSaveBlockerId = 0
  /\ ( /\ prevTick.valid /\ prevTick.started = 1 /\ prevTick.threw
       /\ lastTick.valid /\ lastTick.should )
       => lastTick.started = 1

----------------------------------------------------------------------------
(* Locking discipline *)

(* C13: every step that changes sessions.json, the creation of a missing   *)
(* file included, is taken by the process that holds the lock on it, from  *)
(* inside its critical section.                                            *)
C13_EveryWriteUnderLock ==
  [][ledger' # ledger =>
       /\ ledgerLock # 0
       /\ lpc[ledgerLock] = "cs"
       /\ lpc'[ledgerLock] # lpc[ledgerLock]]_vars

(* C14: a caller that is not between lockfile.lock and the end of the      *)
(* finally block of a ledger operation does not hold the lock on           *)
(* sessions.json, whether the operation returned or threw; a process that  *)
(* is not between lockfile.lock and release of a PID-file operation does   *)
(* not hold the lock on server.pid.                                        *)
C14_LockReleasedOnEveryExit ==
  /\ \A c \in Callers :
       lpc[c] \notin {"cs", "release", "throw"} => ledgerLock # c
  /\ \A p \in Procs :
       spc[p] \notin {"isr_read", "isr_unlink", "wp_write"} => pidLock # p

(* A status command has finished an isServerRunning that read and removed  *)
(* a stale PID file, its getActiveSessionsWithLock has failed on a file    *)
(* that does not parse, a hook command has returned, and both locks are    *)
(* free.                                                                   *)
C14_Witness ==
  /\ \E c \in StatusClients : lpc[c] = "failed" /\ ltries[c] = 0 /\ ledger = DamagedFile
  /\ \E c \in HookClients : lpc[c] = "done"
  /\ \E q \in Probes : spc[q] = "done" /\ pidFile = NoFile
  /\ ledgerLock = 0
  /\ pidLock = 0

----------------------------------------------------------------------------
(* Frame conditions and results of the ledger operations *)

(* Caller c takes a step of the ledger operation it runs *)
StepOf(c) == lpc'[c] # lpc[c]

(* C15: an addSessionWithLock that finds its id present and not expired    *)
(* changes, of all session fields, only that id's last_activity, which     *)
(* becomes now: the id's created_at and project_dir and every other        *)
(* session that is not expired are written back as read.  One that finds   *)
(* its id absent inserts it with created_at = last_activity = now.  (The   *)
(* file as read and as written by the critical section; an id that is      *)
(* present when the call is made implies a file that initSessionsFile      *)
(* leaves alone.)                                                          *)
C15_RenewTouchesOnlyLastActivity ==
  \A c \in Clients :
    (lpc[c] = "release" /\ lop[c].kind = "add") =>
      LET id == lop[c].id
          b == lres[c].before.sessions
          a == lres[c].after.sessions
          t == lres[c].time
      IN /\ (id \in DOMAIN b /\ t - b[id].last_activity < SESSION_TIMEOUT) =>
              /\ id \in DOMAIN a
              /\ a[id].last_activity = lres[c].now
              /\ a[id].created_at = b[id].created_at
              /\ a[id].project_dir = b[id].project_dir
              /\ \A j \in DOMAIN b \ {id} :
                   t - b[j].last_activity < SESSION_TIMEOUT
                     => (j \in DOMAIN a /\ a[j] = b[j])
         /\ id \notin DOMAIN b =>
              /\ id \in DOMAIN a
              /\ a[id].created_at = lres[c].now
              /\ a[id].last_activity = lres[c].now

(* A renew, later than the creation, of an id created by another process,  *)
(* beside another session that is not expired.                             *)
C15_Witness ==
  \E c \in Clients :
    /\ lpc[c] = "release"
    /\ lop[c].kind = "add"
    /\ lop[c].id \in DOMAIN lres[c].before.sessions
    /\ lres[c].before.sessions[lop[c].id].last_activity < lres[c].now
    /\ lres[c].before.sessions[lop[c].id].project_dir # ProjectDir(c)
    /\ lres[c].after.sessions[lop[c].id].created_at < lres[c].now
    /\ \E j \in DOMAIN lres[c].after.sessions : j # lop[c].id

(* What a removeSessionWithLock that has reached its return has done: the  *)
(* sessions written are the ones read less the expired ones and the id,    *)
(* and cleaned_sessions counts the expired ones.                           *)
RemoveOutcome ==
  \A c \in Clients :
    (lpc[c] = "release" /\ lop[c].kind = "remove") =>
      LET b == lres[c].before.sessions
          a == lres[c].after.sessions
          old == {i \in DOMAIN b : lres[c].time - b[i].last_activity >= SESSION_TIMEOUT}
      IN /\ lres[c].cleaned = Cardinality(old)
         /\ lop[c].id \notin DOMAIN a
         /\ DOMAIN a = (DOMAIN b \ old) \ {lop[c].id}
         /\ \A i \in DOMAIN a : a[i] = b[i]

(* C16: removeSessionWithLock deletes its id if it is there after the      *)
(* expiry sweep and reports how many expired sessions it purged; while no  *)
(* session is expired and the id is absent, no step of the call changes    *)
(* a sessions.json that is there.                                          *)
C16_RemoveWritesOnlyOnChange ==
  /\ []RemoveOutcome
  /\ [][\A c \in Clients :
          ( /\ lop[c].kind = "remove"
            /\ StepOf(c)
            /\ ledger.exists
            /\ lop[c].id \notin DOMAIN ledger.sessions
            /\ \A i \in DOMAIN ledger.sessions :
                 clock + 1 - ledger.sessions[i].last_activity < SESSION_TIMEOUT )
            => ledger' = ledger]_vars

(* C17: no step of a getActiveSessionsWithLock call changes a              *)
(* sessions.json that is there, neither its sessions nor its last_updated. *)
C17_ListIsReadOnly ==
  [][\A c \in Clients :
       (lop[c].kind = "list" /\ StepOf(c) /\ ledger.exists) => ledger' = ledger]_vars

(* C18: getActiveSessionsWithLock returns the ids of exactly the sessions  *)
(* of the file whose last_activity is less than 15 minutes before the      *)
(* call's clock reading; a session idle for exactly 15 minutes or longer   *)
(* is not among them.                                                      *)
C18_ActiveListExpiry ==
  \A c \in Clients :
    (lpc[c] = "release" /\ lop[c].kind = "list") =>
      LET b == lres[c].before.sessions
          t == lres[c].time
      IN /\ \A i \in DOMAIN b :
              i \in lres[c].active <=> t - b[i].last_activity < 15 * 60 * 1000
         /\ lres[c].active \subseteq DOMAIN b

(* A list has returned a session idle for one millisecond less than 15     *)
(* minutes and has left out one idle for exactly 15 minutes.               *)
C18_Witness ==
  \E c \in Clients :
    /\ lpc[c] = "release"
    /\ lop[c].kind = "list"
    /\ \E i \in lres[c].active :
         lres[c].time - lres[c].before.sessions[i].last_activity = 15 * 60 * 1000 - 1
    /\ \E j \in DOMAIN lres[c].before.sessions \ lres[c].active :
         lres[c].time - lres[c].before.sessions[j].last_activity = 15 * 60 * 1000

(* What a cleanupExpiredSessionsWithLock that has reached its return has   *)
(* done: the sessions written are the ones read less the expired ones, and *)
(* changes counts the expired ones.                                        *)
SweepOutcome ==
  \A c \in Clients :
    (lpc[c] = "release" /\ lop[c].kind = "sweep") =>
      LET b == lres[c].before.sessions
          a == lres[c].after.sessions
          old == {i \in DOMAIN b : lres[c].time - b[i].last_activity >= SESSION_TIMEOUT}
      IN /\ lres[c].changes = Cardinality(old)
         /\ DOMAIN a = DOMAIN b \ old
         /\ \A i \in DOMAIN a : a[i] = b[i]
         /\ old = {} => lres[c].after = lres[c].before

(* C19: cleanupExpiredSessionsWithLock removes exactly the sessions idle   *)
(* for 15 minutes or longer and returns their number; it keeps every other *)
(* session as it is, and while no session is expired no step of the call   *)
(* changes a sessions.json that is there.                                  *)
C19_SweepRemovesExactlyExpired ==
  /\ []SweepOutcome
  /\ [][\A c \in Clients :
          ( /\ lop[c].kind = "sweep"
            /\ StepOf(c)
            /\ ledger.exists
            /\ \A i \in DOMAIN ledger.sessions :
                 clock - ledger.sessions[i].last_activity < SESSION_TIMEOUT )
            => ledger' = ledger]_vars

(* C20: every session in sessions.json has created_at <= last_activity,    *)
(* whatever add/renew, remove, list and sweep calls the processes have     *)
(* made.  (The wall clock does not run backwards.)                         *)
C20_CreatedNotAfterLastActivity ==
  \A id \in DOMAIN ledger.sessions :
    ledger.sessions[id].created_at <= ledger.sessions[id].last_activity

(* A session renewed later than it was created is in the file *)
C20_Witness ==
  \E id \in DOMAIN ledger.sessions :
    ledger.sessions[id].created_at < ledger.sessions[id].last_activity

----------------------------------------------------------------------------
(* Missing and unparseable ledger files *)

(* The program points of a ledger operation up to and including its read *)
UpToRead == {"init", "lock", "cs", "throw"}

(* C21: while sessions.json is missing or does not parse, no step that an  *)
(* add/renew, remove, list or sweep call takes up to its read of the file  *)
(* changes the file, and none brings the call to its return: the call      *)
(* fails.                                                                  *)
C21_CorruptOrMissingIsSurfaced ==
  [][\A c \in Clients :
       (StepOf(c) /\ lpc[c] \in UpToRead /\ (~ledger.exists \/ ~Parses(ledger)))
         => /\ ledger' = ledger
            /\ lpc'[c] \notin {"release", "done"}]_vars

----------------------------------------------------------------------------
(* What validatePid makes of the recorded PID *)

(* The PIDs of live processes that are not a caffeine server *)
UnrelatedPids == {OtherPid, ForeignPid}

(* C22: an isServerRunning that was called with a PID file naming a live   *)
(* process whose command line is not that of the caffeine server returns   *)
(* false, and the record naming that process is gone when it returns.      *)
C22_NoFalsePositiveFromPidReuse ==
  \A p \in Procs :
    (spc[p] = "isr_done" /\ sloc[p].stale \in UnrelatedPids)
      => (~sloc[p].result /\ pidFile # sloc[p].stale)

(* C23, as claimed: an isServerRunning that has read a PID whose           *)
(* process.kill probe fails with EPERM returns true and leaves the PID     *)
(* file as it is.                                                          *)
C23_AmbiguousProbeKeepsRecord ==
  \A p \in Procs :
    (spc[p] = "isr_done" /\ KillError(sloc[p].pid) = "EPERM")
      => (sloc[p].result /\ pidFile = sloc[p].pid)

(* C23, amended: after such a probe the process counts as existing and the *)
(* command line decides: isServerRunning returns true exactly if it names  *)
(* the caffeine server, and then the PID file is left as it is.            *)
C23_AmbiguousProbeCountsAsAlive ==
  \A p \in Procs :
    (spc[p] = "isr_done" /\ KillError(sloc[p].pid) = "EPERM")
      => /\ sloc[p].result <=> IsCaffeineServer(sloc[p].pid)
         /\ sloc[p].result => pidFile = sloc[p].pid

(* An isServerRunning is about to return true for the caffeine server of   *)
(* another user, which it could not signal, and the PID file still names   *)
(* that server.                                                            *)
C23_Witness ==
  \E p \in Procs :
    /\ spc[p] = "isr_done"
    /\ sloc[p].pid = ForeignServerPid
    /\ KillError(sloc[p].pid) = "EPERM"
    /\ sloc[p].result
    /\ pidFile = ForeignServerPid

----------------------------------------------------------------------------
(* The ledger under calls made one after another *)

(* C24: on a ledger that starts without a session, when the first call is  *)
(* an addSessionWithLock that has returned and the second call is a        *)
(* getActiveSessionsWithLock that reads the clock less than 15 minutes     *)
(* after the timestamp the add wrote, the list holds exactly one entry,    *)
(* the id that was added, and that entry's created_at equals its           *)
(* last_activity.                                                          *)
C24_AddThenListRoundTrip ==
  \A c \in Clients :
    ( /\ Cardinality({q \in Clients : q < c}) = 1
      /\ lpc[c] = "release"
      /\ lop[c].kind = "list"
      /\ acked # {}
      /\ lres[c].time - lres[c].before.last_updated < SESSION_TIMEOUT )
    => /\ lres[c].active = acked
       /\ Cardinality(lres[c].active) = 1
       /\ \A i \in lres[c].active :
            lres[c].before.sessions[i].created_at
              = lres[c].before.sessions[i].last_activity

(* The list that follows an add made at a clock value other than zero      *)
(* returns the id one millisecond before the 15 minutes are over.          *)
C24_Witness ==
  \E c \in Clients :
    /\ Cardinality({q \in Clients : q < c}) = 1
    /\ lpc[c] = "release"
    /\ lop[c].kind = "list"
    /\ Cardinality(acked) = 1
    /\ lres[c].active = acked
    /\ lres[c].before.last_updated > 0
    /\ lres[c].time - lres[c].before.last_updated = SESSION_TIMEOUT - 1

----------------------------------------------------------------------------
(* The tick that finds the last session expired *)

(* Tick c's cleanupExpiredSessionsWithLock runs its critical section *)
SweepOfTick(c) ==
  lpc[c] = "cs" /\ lop[c].kind = "sweep" /\ lpc'[c] = "release"

(* Tick c's getActiveSessionsWithLock runs its critical section *)
ListOfTick(c) ==
  lpc[c] = "cs" /\ lop[c].kind = "list" /\ lpc'[c] = "release"

(* Tick c takes its decision; start or stop, if called, did not throw *)
DecisionOfTick(c) ==
  /\ lpc[c] = "apply"
  /\ lpc'[c] = "idle"
  /\ spc'[DaemonPid] = spc[DaemonPid]
  /\ lastTick'.valid
  /\ ~lastTick'.threw

(* Every session in the file has been idle for 15 minutes or longer, more  *)
(* than 15 minutes included                                                *)
AllExpired == \A i \in DOMAIN ledger.sessions : Expired(ledger.sessions[i], clock)

(* No handle is left in the state from a powerSaveBlocker.stop that threw *)
NoHandleLeftBehind(state) == state.powerSaveBlockerId # 0 => state.isCaffeinated

(* C25: a tick that runs when every session (the only one) is expired and  *)
(* that does not fail leaves the file without a session at its sweep, gets *)
(* the empty list from a file without a session, and on the empty list     *)
(* ends in Normal (isCaffeinated false, no handle), having called          *)
(* powerSaveBlocker.stop exactly once if it found isCaffeinated set with   *)
(* a handle stored (disableCaffeine passes that handle, line 135) and      *)
(* .start not at all; with no client about, the file stays without a       *)
(* session from the sweep to the end of the tick and after.  (The tick     *)
(* takes its decision in Normal or in Suppressing, or with the flag an     *)
(* enableCaffeine that threw has left set; a handle that an earlier stop   *)
(* that threw has left behind, the subject of C8, is not the tick's to     *)
(* clear.)                                                                 *)
C25_ExpiryDrivesBackToNormal ==
  [][/\ \A c \in TickIds :
          /\ (SweepOfTick(c) /\ AllExpired) => ledger'.sessions = EmptySessions
          /\ (ListOfTick(c) /\ ledger.sessions = EmptySessions) => lres'[c].active = {}
          /\ ( /\ DecisionOfTick(c)
                /\ lres[c].active = {}
                /\ NoHandleLeftBehind(tray[DaemonPid]) ) =>
                /\ ~tray'[DaemonPid].isCaffeinated
                /\ tray'[DaemonPid].powerSaveBlockerId = 0
                /\ nstart' = nstart
                /\ nstop' = IF StopCalled(tray[DaemonPid]) THEN nstop + 1 ELSE nstop
     /\ (ledger.exists /\ ledger.sessions = EmptySessions) => ledger' = ledger]_vars

(* A tick has completed that found no active session while suppression was *)
(* on, after a tick that had found one: the session is gone from the file, *)
(* written by a sweep at 15 minutes or later, stop has been called once    *)
(* and the daemon is in Normal without a handle.                           *)
C25_Witness ==
  /\ prevTick.valid /\ prevTick.should
  /\ lastTick.valid /\ ~lastTick.should /\ lastTick.was
  /\ lastTick.stopped = 1 /\ ~lastTick.threw
  /\ ledger.sessions = EmptySessions
  /\ ledger.last_updated >= SESSION_TIMEOUT
  /\ nstop = 1
  /\ spc[DaemonPid] = "polling"
  /\ ~tray[DaemonPid].isCaffeinated
  /\ tray[DaemonPid].powerSaveBlockerId = 0

----------------------------------------------------------------------------
(* The daemon and its PID record *)

(* C26: while a process serves as the daemon (startPolling has armed its   *)
(* timer and shutdownServer has not begun), server.pid exists and holds    *)
(* that process's PID.                                                     *)
C26_DaemonOwnsPidRecord ==
  \A p \in Servers : spc[p] = "polling" => pidFile = p

----------------------------------------------------------------------------
(* What the daemon comes to observe *)

(* The list a getActiveSessionsWithLock would return now *)
ActiveNow == ActiveIds(ledger.sessions, clock)

(* The two states of the controller *)
Suppressing(state) == state.isCaffeinated /\ state.powerSaveBlockerId # 0

Normal(state) == ~state.isCaffeinated /\ state.powerSaveBlockerId = 0

(* A tick reaches its decision and ends without an error *)
CleanTick == \E c \in TickIds : TickApply(c) /\ ~lastTick'.threw

(* C27: if ticks keep completing without an error (the timer keeps firing, *)
(* the ledger is read), then from a session that stays active on the       *)
(* daemon comes to be, and stays, Suppressing, and from an active list     *)
(* that stays empty on it comes to be, and stays, Normal.                  *)
C27_EventualObservation ==
  /\ ([]<><<CleanTick>>_vars /\ <>[](ActiveNow # {}))
       => <>[]Suppressing(tray[DaemonPid])
  /\ ([]<><<CleanTick>>_vars /\ <>[](ActiveNow = {}))
       => <>[]Normal(tray[DaemonPid])

----------------------------------------------------------------------------
(* The daemon after a tick that failed *)

(* Tick c ends on an error: lockfile.lock gave up, JSON.parse threw, or    *)
(* powerSaveBlocker.start or .stop threw                                   *)
TickEndsOnError(c) ==
  \/ LockBusy(c)
  \/ ReleaseThrow(c)
  \/ TickApply(c) /\ lastTick'.threw

(* C28: the step on which a tick ends on an error, whatever the error,     *)
(* leaves the process where it is (it does not exit), leaves the timer as  *)
(* it is (armed if it was armed) and the tray in place, and leaves the     *)
(* tick's slot free for the timer's next updateCaffeineStatus.             *)
C28_DaemonSurvivesFailedTicks ==
  [][\A c \in TickIds :
       TickEndsOnError(c) =>
         /\ spc' = spc
         /\ tray'[DaemonPid].pollInterval = tray[DaemonPid].pollInterval
         /\ tray'[DaemonPid].tray = tray[DaemonPid].tray
         /\ lpc'[c] = "idle"]_vars

(* After a tick whose start or stop threw another tick has completed, a    *)
(* tick has been abandoned on a file that does not parse, and the daemon   *)
(* polls on, its timer armed, with the next tick at the lock.              *)
C28_Witness ==
  /\ prevTick.valid /\ prevTick.threw
  /\ lastTick.valid /\ ~lastTick.threw
  /\ \E c \in TickIds : lpc[c] = "idle" /\ lres[c].action = "abandoned"
  /\ \E d \in TickIds : lpc[d] = "lock"
  /\ ledger = DamagedFile
  /\ spc[DaemonPid] = "polling"
  /\ tray[DaemonPid].pollInterval

----------------------------------------------------------------------------
(* Lock acquisition under contention *)

Returned(c) == lpc[c] \in {"done", "failed"}

(* The step on which lockfile.lock of caller c gives up *)
GivesUp(c) == lpc[c] = "lock" /\ lpc'[c] = "failed"

(* C29: whoever holds the lock and for however long, the caller's          *)
(* operation returns: with its critical section done, or failing.  A       *)
(* lockfile.lock gives up on its attempt number MAX_RETRIES + 1, never     *)
(* sooner and never later; readSessionsWithLock runs its body at most      *)
(* MAX_RETRIES + 1 times (retryCount 0 to MAX_RETRIES) and fails only on   *)
(* the last run, with the error of that run.                               *)
C29_BoundedLockAcquisition ==
  /\ <>Returned(Caller)
  /\ [](ltries[Caller] <= MAX_RETRIES + 1 /\ retryCount[Caller] <= MAX_RETRIES)
  /\ [][/\ GivesUp(Caller) =>
            /\ ledgerLock # 0
            /\ ltries[Caller] = MAX_RETRIES
            /\ ltries'[Caller] = MAX_RETRIES + 1
        /\ (lop[Caller].kind = "read" /\ lpc'[Caller] = "failed") =>
            /\ retryCount[Caller] = MAX_RETRIES
            /\ lpc[Caller] = "lock" <=> ltries'[Caller] = MAX_RETRIES + 1]_vars

(* readSessionsWithLock has failed with ELOCKED on the last attempt of its *)
(* last run                                                                *)
C29_Witness ==
  /\ lpc[Caller] = "failed"
  /\ retryCount[Caller] = MAX_RETRIES
  /\ ltries[Caller] = MAX_RETRIES + 1
  /\ ledgerLock = Contender

----------------------------------------------------------------------------
(* The order of a hook command: ledger first, server second *)

(* The server processes that a command has spawned *)
SpawnedServers == {s \in Servers : spc[s] = "spawned"}

(* The caffeinate commands that have returned after startServerProcess or  *)
(* after 'Server is already running'                                       *)
EnsuredCommands ==
  {c \in HookClients : lop[c].kind = "add" /\ lpc[c] = "done" /\ spc[HookProbe(c)] = "done"}

(* C30: a hook command whose server check has begun is a caffeinate        *)
(* command whose addSessionWithLock has returned (its lock released); a    *)
(* command whose ledger operation failed and an uncaffeinate command have  *)
(* begun no check; and every spawned server was spawned by a caffeinate    *)
(* command that went through the check.                                    *)
C30_CaffeinateOrdering ==
  /\ \A c \in HookClients :
       /\ spc[HookProbe(c)] # "off" =>
            /\ lop[c].kind = "add"
            /\ lpc[c] \in {"probing", "done"}
            /\ ledgerLock # c
       /\ lpc[c] = "failed" => spc[HookProbe(c)] = "off"
       /\ lop[c].kind = "remove" => spc[HookProbe(c)] = "off"
  /\ Cardinality(SpawnedServers) <= Cardinality(EnsuredCommands)

(* A caffeinate command has added its session, found the PID file stale,   *)
(* removed it and spawned a server                                         *)
C30_Witness ==
  \E c \in HookClients :
    /\ c \in EnsuredCommands
    /\ lop[c].id \in DOMAIN ledger.sessions
    /\ sloc[HookProbe(c)].stale = DeadPid
    /\ pidFile = NoFile
    /\ SpawnedServers # {}

----------------------------------------------------------------------------
(* The calls of powerSaveBlocker under overlapping ticks and shutdown *)

(* C31: whatever the order in which the ticks in flight and shutdownServer *)
(* take their steps, powerSaveBlocker.start has been called as often as    *)
(* powerSaveBlocker.stop or once more, and a call of stop passes the       *)
(* handle of the latest call of start (the handle of call number n is n).  *)
C31_BalancedCapabilityCalls ==
  /\ [](nstart - nstop \in {0, 1})
  /\ [][nstop' # nstop => tray[DaemonPid].powerSaveBlockerId = nstart]_vars

----------------------------------------------------------------------------
(* The daemon after shutdownServer *)

(* shutdownServer has cleared the timer and its disableCaffeine has left   *)
(* isCaffeinated false                                                     *)
ShutDown == sd[DaemonPid].timer /\ sd[DaemonPid].forced

(* C32: from then on no run of updateCaffeineStatus begins and             *)
(* powerSaveBlocker.start is not called again, whatever a tick that was in *)
(* flight finds when it completes.                                         *)
C32_ShutdownIsFinal ==
  [][ShutDown =>
       /\ nstart' = nstart
       /\ \A c \in TickIds : lpc[c] = "idle" => lpc'[c] = "idle"]_vars

----------------------------------------------------------------------------
(* The removal of a stale PID file beside a starting daemon *)

(* The PID file names a process that serves as the daemon *)
HoldsLiveDaemon == pidFile \in Servers /\ spc[pidFile] = "polling"

(* C33: the unlink of isServerRunning's removePidFile never removes a PID  *)
(* file that, when it is removed, names a process serving as the daemon.   *)
C33_CleanupSparesLiveDaemon ==
  [][\A p \in Procs : IsrUnlink(p) => ~HoldsLiveDaemon]_vars

----------------------------------------------------------------------------
(* isServerRunning beside a live daemon *)

(* C34: an isServerRunning of a process that started while the PID file    *)
(* named a polling daemon, and that returns while it still names that      *)
(* daemon and the daemon still polls, returns true: whether or not the     *)
(* lock on the PID file was held by someone else when it was called.       *)
C34_NoFalseNegativeForLiveDaemon ==
  \A p \in Servers :
    (/\ spc[p] = "isr_done"
     /\ sloc[p].late # 0
     /\ pidFile = sloc[p].late
     /\ spc[sloc[p].late] = "polling")
      => sloc[p].result

----------------------------------------------------------------------------
(* addSessionWithLock for an id whose session has expired *)

(* C35: an addSessionWithLock that finds its id with a last_activity at    *)
(* least SESSION_TIMEOUT before its sweep's clock reading counts the old   *)
(* entry among cleaned_sessions, writes the id with created_at =           *)
(* last_activity = now and the caller's project_dir, and reports "added";  *)
(* the created_at it read is not the one it writes.                        *)
C35_RenewOfExpiredIsFresh ==
  \A c \in Clients :
    (lpc[c] = "release" /\ lop[c].kind = "add") =>
      LET id == lop[c].id
          b == lres[c].before.sessions
          a == lres[c].after.sessions
      IN (id \in DOMAIN b /\ lres[c].time - b[id].last_activity >= SESSION_TIMEOUT) =>
           /\ lres[c].cleaned = ExpiredCount(b, lres[c].time)
           /\ lres[c].cleaned >= 1
           /\ id \in DOMAIN a
           /\ a[id] = [created_at |-> lres[c].now, last_activity |-> lres[c].now,
                       project_dir |-> ProjectDir(c)]
           /\ a[id].created_at # b[id].created_at
           /\ lres[c].action = "added"

(* The add of a client for the id another process created, idle for        *)
(* exactly the timeout at the sweep's reading and one millisecond less at  *)
(* the reading that is written                                             *)
C35_Witness ==
  \E c \in Clients :
    /\ lpc[c] = "release" /\ lop[c].kind = "add"
    /\ lop[c].id \in DOMAIN lres[c].before.sessions
    /\ lres[c].time - lres[c].before.sessions[lop[c].id].last_activity = SESSION_TIMEOUT
    /\ lres[c].now < lres[c].time
    /\ lres[c].before.sessions[lop[c].id].project_dir # ProjectDir(c)
    /\ ledger = lres[c].after

====
